---------------------------- MODULE Spec2Model ----------------------------
(***************************************************************************)
(* A model of the HDR image codecs of hdrpy: the portable floatmap (PFM)   *)
(* reader and writer and the Radiance (.hdr) reader.                       *)
(*                                                                         *)
(* A file is a sequence of bytes (0..255).  Text is written as a tuple of  *)
(* one-character strings and turned into bytes by Bytes.  A stream         *)
(* position is the number of bytes already consumed, as tell() gives it.   *)
(* A float is denoted by the fields of its IEEE binary32 pattern: the sign  *)
(* s, the biased exponent e (0..255) and the fraction m (0 .. 2^23 - 1).   *)
(* A call that raises yields the record [kind |-> "error", exc |-> name].  *)
(***************************************************************************)
EXTENDS Integers, Sequences, FiniteSets, TLC

VARIABLES
    pfm_image,    \* the caller's (H, W, 3) array handed to PFMFormat.write
                  \* or to hdrpy.io.write
    pfm_file,     \* the bytes of the PFM file on disk
    pfm_src,      \* how the file came to hold its bytes: none/write/cut/magic,
                  \* or the suffix of the path hdrpy.io.write was called with
    pfm_result,   \* what PFMFormat.read returned or raised, or the outcome
                  \* of hdrpy.io.write
    rad_input,    \* the parts the Radiance file was put together from
    rad_file,     \* the bytes of the Radiance file
    rad_reader,   \* the reader at work: "imread" (the imread method) or
                  \* "io" (RadianceHDRHeader and RadianceHDRBody), or
                  \* "io_again" (the same two objects on their next file)
    im,           \* the locals of imread and its position
    filled,       \* the indices of tmpdata the RLE decoder has written
    rad_result,   \* what imread returned or raised
    header,       \* the RadianceHDRHeader object: variables, header_end
    header_result,\* what RadianceHDRHeader.read_header returned or raised
    body,         \* the RadianceHDRBody object: height, width, the flags
    body_result,  \* what RadianceHDRBody.read_body returned or raised
    tmo_heap,     \* the arrays alive: array number i is tmo_heap[i]
    tmo_hist      \* the tone operator calls made so far, the oldest first

pfm_vars == <<pfm_image, pfm_file, pfm_src, pfm_result>>

rad_vars == <<rad_input, rad_file, rad_reader, im, filled, rad_result,
              header, header_result, body, body_result>>

tmo_vars == <<tmo_heap, tmo_hist>>

vars == <<pfm_vars, rad_vars, tmo_vars>>

---------------------------------------------------------------------------
(* Bounds of the model. *)

\* Largest height and width of an image handed to the PFM writer.
MaxDim == 2

\* Largest number of lines ahead of the resolution line of a Radiance file.
MaxHeaderLines == 3

\* Largest number of scanline blocks in the body of a Radiance file.
MaxBlocks == 2

---------------------------------------------------------------------------
(* Bytes, text and the stream primitives. *)

CharCode ==
    ("\n" :> 10) @@ (" " :> 32) @@ ("#" :> 35) @@ ("+" :> 43) @@ ("-" :> 45)
    @@ ("." :> 46) @@ ("0" :> 48) @@ ("1" :> 49) @@ ("2" :> 50) @@ ("3" :> 51)
    @@ ("4" :> 52) @@ ("5" :> 53) @@ ("6" :> 54) @@ ("7" :> 55) @@ ("8" :> 56)
    @@ ("9" :> 57) @@ ("=" :> 61) @@ ("?" :> 63) @@ ("A" :> 65) @@ ("B" :> 66)
    @@ ("C" :> 67) @@ ("D" :> 68) @@ ("E" :> 69) @@ ("F" :> 70) @@ ("G" :> 71)
    @@ ("I" :> 73) @@ ("M" :> 77) @@ ("N" :> 78) @@ ("O" :> 79) @@ ("P" :> 80)
    @@ ("R" :> 82) @@ ("S" :> 83) @@ ("T" :> 84) @@ ("U" :> 85) @@ ("X" :> 88)
    @@ ("Y" :> 89) @@ ("_" :> 95) @@ ("b" :> 98) @@ ("e" :> 101)
    @@ ("f" :> 102) @@ ("g" :> 103) @@ ("i" :> 105) @@ ("l" :> 108)
    @@ ("r" :> 114) @@ ("t" :> 116) @@ ("x" :> 120) @@ ("y" :> 121)
    @@ ("z" :> 122)

\* bytearray(text, 'ascii')
Bytes(text) == [i \in 1..Len(text) |-> CharCode[text[i]]]

NoResult == [kind |-> "none"]

Raised(exc) == [kind |-> "error", exc |-> exc]

SetMin(S) == CHOOSE x \in S : \A y \in S : x <= y

\* f.read(n) at position pos: the next n bytes, fewer at the end of the file.
ReadBytes(file, pos, n) ==
    SubSeq(file, pos + 1, IF pos + n <= Len(file) THEN pos + n ELSE Len(file))

\* f.readline(limit) at position pos: the bytes up to and including the next
\* newline, at most limit of them, or up to the end of the file; the empty
\* sequence at the end.  f.readline() is ReadLine(file, pos, Len(file)).
ReadLine(file, pos, limit) ==
    LET nls == {i \in (pos + 1)..Len(file) : file[i] = 10}
        nl  == IF nls = {} THEN Len(file) ELSE SetMin(nls)
        end == IF nl - pos > limit THEN pos + limit ELSE nl
    IN  [line |-> SubSeq(file, pos + 1, end), pos |-> end]

\* bytes.decode('ascii') raises UnicodeDecodeError on a byte above 127.
IsAscii(s) == \A i \in 1..Len(s) : s[i] < 128

IsDigit(b) == b >= 48 /\ b <= 57

IsSpace(b) == b \in {9, 10, 11, 12, 13, 32}

\* str.strip(): leading and trailing whitespace removed.
Strip(s) ==
    LET keep == {i \in 1..Len(s) : ~IsSpace(s[i])}
    IN  IF keep = {} THEN <<>>
        ELSE SubSeq(s, SetMin(keep), CHOOSE i \in keep : \A j \in keep : j <= i)

\* str.split(' '): the pieces between single spaces (empty pieces kept).
RECURSIVE Split(_)
Split(s) ==
    LET sp == {i \in 1..Len(s) : s[i] = 32}
    IN  IF sp = {} THEN <<s>>
        ELSE <<SubSeq(s, 1, SetMin(sp) - 1)>>
                 \o Split(SubSeq(s, SetMin(sp) + 1, Len(s)))

\* The value of a non-empty run of decimal digits.
RECURSIVE DigitsValue(_)
DigitsValue(s) ==
    IF Len(s) = 0 THEN 0
    ELSE 10 * DigitsValue(SubSeq(s, 1, Len(s) - 1)) + (s[Len(s)] - 48)

\* int(text) for an optional sign followed by decimal digits; anything else
\* raises ValueError (ok = FALSE).  (int also accepts surrounding whitespace
\* and underscores between digits, which no input of this model holds.)
ParseInt(s) ==
    LET signed == Len(s) > 0 /\ s[1] \in {43, 45}
        digits == IF signed THEN Tail(s) ELSE s
    IN  IF Len(digits) = 0 \/ \E i \in 1..Len(digits) : ~IsDigit(digits[i])
        THEN [ok |-> FALSE, val |-> 0]
        ELSE [ok |-> TRUE,
              val |-> IF signed /\ s[1] = 45 THEN 0 - DigitsValue(digits)
                      ELSE DigitsValue(digits)]

\* '{0:d}'.format(n) for n >= 0
RECURSIVE Dec(_)
Dec(n) == IF n < 10 THEN <<48 + n>> ELSE Dec(n \div 10) \o <<48 + (n % 10)>>

---------------------------------------------------------------------------
(* PFM: hdrpy/format/pfm.py (hdrpy/io/pfm_format.py holds the same code).  *)

\* struct.pack('f', x): the four bytes of the binary32 pattern, lowest first.
Pack(x) ==
    <<x.m % 256, (x.m \div 256) % 256, (x.m \div 65536) + 128 * (x.e % 2),
      (x.e \div 2) + 128 * x.s>>

\* struct.unpack('f', b)
Unpack(b) ==
    [s |-> b[4] \div 128,
     e |-> 2 * (b[4] % 128) + (b[3] \div 128),
     m |-> 65536 * (b[3] % 128) + 256 * b[2] + b[1]]

ImageIndices(h, w) == (0..(h - 1)) \X (0..(w - 1)) \X (0..2)

\* image.reshape(siz) with the Reshape_colmajor fault: columns before rows.
Reshape_colmajor(image) ==
    LET h == image.shape[1]
        w == image.shape[2]
    IN  [k \in 1..(h * w * 3) |->
            image.at[<<((k - 1) \div 3) % h, (k - 1) \div (3 * h), (k - 1) % 3>>]]

\* image.reshape(siz): the entries in row-major, channel-minor (C) order.
Reshape(image) ==
    LET h == image.shape[1]
        w == image.shape[2]
    IN  [k \in 1..(h * w * 3) |->
            image.at[<<(k - 1) \div (3 * w), ((k - 1) \div 3) % w, (k - 1) % 3>>]]

\* struct.pack('f' * siz, *tmp)
RECURSIVE PackAll(_)
PackAll(flat) ==
    IF Len(flat) = 0 THEN <<>> ELSE Pack(Head(flat)) \o PackAll(Tail(flat))

\* PFMFormat.write with the height written before the width.
PFMWrite_hw(image) ==
    LET h == image.shape[1]
        w == image.shape[2]
    IN  Bytes(<<"P", "F", "\n">>)
        \o Dec(h) \o Bytes(<<" ">>) \o Dec(w) \o Bytes(<<"\n">>)
        \o Bytes(<<"-", "1", ".", "0", "\n">>)
        \o PackAll(Reshape(image))

\* PFMFormat.write: the bytes written to the file.
PFMWrite(image) ==
    LET h == image.shape[1]
        w == image.shape[2]
    IN  Bytes(<<"P", "F", "\n">>)
        \o Dec(w) \o Bytes(<<" ">>) \o Dec(h) \o Bytes(<<"\n">>)
        \o Bytes(<<"-", "1", ".", "0", "\n">>)
        \o PackAll(Reshape(image))

\* np.array(struct.unpack(...)).reshape((h, w, 3)) over the body bytes.
PFMBody(raw, h, w) ==
    [kind |-> "image",
     shape |-> <<h, w, 3>>,
     at |-> [idx \in ImageIndices(h, w) |->
                LET k == (idx[1] * w + idx[2]) * 3 + idx[3]
                IN  Unpack(SubSeq(raw, 4 * k + 1, 4 * k + 4))]]

\* PFMFormat.read: the array returned, or the exception raised.
PFMRead(file) ==
    LET l1    == ReadLine(file, 0, Len(file))
        l2    == ReadLine(file, l1.pos, Len(file))
        parts == Split(Strip(l2.line))
        l3    == ReadLine(file, l2.pos, Len(file))
    IN  IF ~IsAscii(l2.line) THEN Raised("UnicodeDecodeError")
        ELSE IF Len(parts) # 2 THEN Raised("ValueError")
        ELSE LET w == ParseInt(parts[1])
                 h == ParseInt(parts[2])
             IN  IF ~w.ok \/ ~h.ok THEN Raised("ValueError")
                 ELSE LET siz  == h.val * w.val * 3
                          want == IF siz < 0 THEN 0 ELSE 4 * siz
                          raw  == IF siz < 0
                                  THEN ReadBytes(file, l3.pos, Len(file))
                                  ELSE ReadBytes(file, l3.pos, 4 * siz)
                      IN  IF Len(raw) # want THEN Raised("struct.error")
                          ELSE IF h.val < 0 \/ w.val < 0
                               THEN Raised("ValueError")
                          ELSE PFMBody(raw, h.val, w.val)

---------------------------------------------------------------------------
(* The PFM state machine: an image is written, the file may be damaged on  *)
(* disk, and the file is read back.                                        *)

\* 0.0, 1.0, -1.0, the largest finite float, the smallest subnormal,
\* 3.14159274, +Inf and NaN.
Palette ==
    <<[s |-> 0, e |-> 0, m |-> 0], [s |-> 0, e |-> 127, m |-> 0],
      [s |-> 1, e |-> 127, m |-> 0], [s |-> 0, e |-> 254, m |-> 8388607],
      [s |-> 0, e |-> 0, m |-> 1], [s |-> 0, e |-> 128, m |-> 4788187],
      [s |-> 0, e |-> 255, m |-> 0], [s |-> 0, e |-> 255, m |-> 4194304]>>

\* The images handed to the writer: every shape up to MaxDim x MaxDim, the
\* entries walking the palette with a stride per row, column and channel.
PfmImages ==
    {[kind |-> "image",
      shape |-> <<h, w, 3>>,
      at |-> [idx \in ImageIndices(h, w) |->
                 Palette[((a * idx[1] + b * idx[2] + d * idx[3]) % Len(Palette)) + 1]]] :
        h \in 1..MaxDim, w \in 1..MaxDim, a \in 0..2, b \in 0..2, d \in 0..2}

\* First lines a file may carry in place of PF: greyscale PFM, and PPM.
OtherMagics == {<<"P", "f", "\n">>, <<"P", "6", "\n">>}

PfmInit ==
    /\ pfm_image \in PfmImages
    /\ pfm_file = <<>>
    /\ pfm_src = "none"
    /\ pfm_result = NoResult
    /\ rad_input = NoResult
    /\ rad_file = <<>>
    /\ rad_reader = "none"
    /\ im = NoResult
    /\ filled = {}
    /\ rad_result = NoResult
    /\ header = NoResult
    /\ header_result = NoResult
    /\ body = NoResult
    /\ body_result = NoResult
    /\ tmo_heap = <<>>
    /\ tmo_hist = <<>>

\* PFMFormat.write(path, image)
PfmWrite ==
    /\ pfm_src = "none"
    /\ pfm_file' = PFMWrite(pfm_image)
    /\ pfm_src' = "write"
    /\ UNCHANGED <<pfm_image, pfm_result, rad_vars, tmo_vars>>

\* The file is cut short on disk.
PfmTruncate ==
    /\ pfm_src = "write"
    /\ pfm_result = NoResult
    /\ \E n \in 0..(Len(pfm_file) - 1) : pfm_file' = SubSeq(pfm_file, 1, n)
    /\ pfm_src' = "cut"
    /\ UNCHANGED <<pfm_image, pfm_result, rad_vars, tmo_vars>>

\* The file on disk carries another first line, the rest being as written.
PfmOtherMagic ==
    /\ pfm_src = "write"
    /\ pfm_result = NoResult
    /\ \E m \in OtherMagics :
          pfm_file' = Bytes(m) \o SubSeq(pfm_file, 4, Len(pfm_file))
    /\ pfm_src' = "magic"
    /\ UNCHANGED <<pfm_image, pfm_result, rad_vars, tmo_vars>>

\* image = PFMFormat.read(path)
PfmRead ==
    /\ pfm_src # "none"
    /\ pfm_result = NoResult
    /\ pfm_result' = PFMRead(pfm_file)
    /\ UNCHANGED <<pfm_image, pfm_file, pfm_src, rad_vars, tmo_vars>>


---------------------------------------------------------------------------
(* Radiance: the regular expressions of both readers.                      *)

StartsWith(buf, prefix) ==
    Len(buf) >= Len(prefix) /\ SubSeq(buf, 1, Len(prefix)) = prefix

\* What (.*) matches from index start on: the bytes before the next newline.
RestOfLine(buf, start) ==
    LET nls == {i \in start..Len(buf) : buf[i] = 10}
    IN  SubSeq(buf, start, IF nls = {} THEN Len(buf) ELSE SetMin(nls) - 1)

\* re.compile(name + '=(.*)').match(buf): ok, and group 1.
MatchVariable(buf, name) ==
    LET prefix == name \o <<61>>
    IN  IF StartsWith(buf, prefix)
        THEN [ok |-> TRUE, val |-> RestOfLine(buf, Len(prefix) + 1)]
        ELSE [ok |-> FALSE, val |-> <<>>]

\* The index of the last byte of the longest run of digits that starts at
\* index start; start - 1 when there is none.
DigitRunEnd(buf, start) ==
    LET stops == {i \in start..(Len(buf) + 1) : i > Len(buf) \/ ~IsDigit(buf[i])}
    IN  SetMin(stops) - 1

IsSign(b) == b \in {43, 45}

\* Whether ([\-\+]A) ([0-9]+) matches at index i of buf, A being axis.
AxisTokenAt(buf, i, axis) ==
    /\ i + 3 <= Len(buf)
    /\ IsSign(buf[i])
    /\ buf[i + 1] = axis
    /\ buf[i + 2] = 32
    /\ IsDigit(buf[i + 3])

\* re.compile('([\-\+]Y) ([0-9]+) ([\-\+]X) ([0-9]+)').match(buf): the
\* match at the start of buf; ysign and xsign are the signs of groups 1 and
\* 3, ydigits and xdigits are groups 2 and 4.
MatchResolution(buf) ==
    LET yend == DigitRunEnd(buf, 4)
        xend == DigitRunEnd(buf, yend + 5)
        ok   == /\ AxisTokenAt(buf, 1, 89)
                /\ yend + 1 <= Len(buf) /\ buf[yend + 1] = 32
                /\ AxisTokenAt(buf, yend + 2, 88)
    IN  IF ok
        THEN [ok |-> TRUE, ysign |-> buf[1],
              ydigits |-> SubSeq(buf, 4, yend),
              xsign |-> buf[yend + 2],
              xdigits |-> SubSeq(buf, yend + 5, xend)]
        ELSE [ok |-> FALSE, ysign |-> 0, ydigits |-> <<>>, xsign |-> 0,
              xdigits |-> <<>>]

\* float(text) accepts the text: an optional sign, then digits with at most
\* one point among them.  (float also accepts exponents, inf and nan, which
\* no input of this model holds.)
IsFloatText(text) ==
    LET t    == Strip(text)
        num  == IF Len(t) > 0 /\ IsSign(t[1]) THEN Tail(t) ELSE t
        dots == {i \in 1..Len(num) : num[i] = 46}
    IN  /\ Cardinality(dots) <= 1
        /\ \E i \in 1..Len(num) : IsDigit(num[i])
        /\ \A i \in 1..Len(num) : IsDigit(num[i]) \/ num[i] = 46

---------------------------------------------------------------------------
(* HdrReader.imread of io/imread.py, one action for each straight piece of *)
(* it and for each turn of its loops.  RadianceHDRReader.imread of         *)
(* hdrpy/format/radiance_hdr.py repeats the body of this method line for   *)
(* line.                                                                   *)

HDR_NONE == 0

HDR_RLE_RGBE_32 == 1

\* bufsize of imread and of read_header
BufSize == 4096

Signatures ==
    {Bytes(<<"#", "?", "R", "A", "D", "I", "A", "N", "C", "E", "\n">>),
     Bytes(<<"#", "?", "R", "G", "B", "E", "\n">>)}

RgbeFormat ==
    Bytes(<<"3", "2", "-", "b", "i", "t", "_", "r", "l", "e", "_",
            "r", "g", "b", "e">>)

XyzeFormat ==
    Bytes(<<"3", "2", "-", "b", "i", "t", "_", "r", "l", "e", "_",
            "x", "y", "z", "e">>)

ImInit ==
    [pc |-> "header", pos |-> 0, valid |-> FALSE, filetype |-> HDR_NONE,
     exposure |-> Bytes(<<"1", ".", "0">>), width |-> 0, height |-> 0,
     tmpdata |-> <<>>, nowy |-> 0, nowx |-> 0, nowv |-> 0]

rad_rest == <<rad_input, rad_file, rad_reader, header, header_result, body,
              body_result>>

\* The statement at hand raises exc, which leaves imread.
ImRaise(exc) ==
    /\ im' = [im EXCEPT !.pc = "error"]
    /\ rad_result' = Raised(exc)
    /\ UNCHANGED filled

\* imread goes on with its locals as in next.
ImGoto(next) ==
    /\ im' = next
    /\ UNCHANGED <<filled, rad_result>>

\* One turn of the header loop.
ImHeaderLine ==
    /\ rad_reader = "imread"
    /\ im.pc = "header"
    /\ LET r   == ReadLine(rad_file, im.pos, BufSize)
           buf == r.line
           fmt == MatchVariable(buf, Bytes(<<"F", "O", "R", "M", "A", "T">>))
           exp == MatchVariable(buf, Bytes(<<"E", "X", "P", "O", "S", "U", "R", "E">>))
       IN  IF ~IsAscii(buf) THEN ImRaise("UnicodeDecodeError")
           ELSE IF buf = <<>> THEN ImRaise("IndexError")
           ELSE IF buf[1] = 35 /\ buf \in Signatures
                THEN ImGoto([im EXCEPT !.pos = r.pos, !.valid = TRUE])
           ELSE IF fmt.ok /\ fmt.val = RgbeFormat
                THEN ImGoto([im EXCEPT !.pos = r.pos,
                                       !.filetype = HDR_RLE_RGBE_32])
           ELSE IF exp.ok
                THEN IF IsFloatText(exp.val)
                     THEN ImGoto([im EXCEPT !.pos = r.pos,
                                            !.exposure = Strip(exp.val)])
                     ELSE ImRaise("ValueError")
           ELSE IF buf[1] = 10
                THEN ImGoto([im EXCEPT !.pos = r.pos, !.pc = "check"])
           ELSE ImGoto([im EXCEPT !.pos = r.pos])
    /\ UNCHANGED <<rad_rest, pfm_vars, tmo_vars>>

\* if not valid: raise
ImHeaderCheck ==
    /\ rad_reader = "imread"
    /\ im.pc = "check"
    /\ IF im.valid THEN ImGoto([im EXCEPT !.pc = "resolution"])
       ELSE ImRaise("Exception")
    /\ UNCHANGED <<rad_rest, pfm_vars, tmo_vars>>

\* The resolution line.
ImResolution ==
    /\ rad_reader = "imread"
    /\ im.pc = "resolution"
    /\ LET r == ReadLine(rad_file, im.pos, BufSize)
           m == MatchResolution(r.line)
       IN  IF ~IsAscii(r.line) THEN ImRaise("UnicodeDecodeError")
           ELSE IF m.ok /\ m.ysign = 45 /\ m.xsign = 43
                THEN ImGoto([im EXCEPT !.pos = r.pos, !.pc = "peek",
                                       !.width = DigitsValue(m.xdigits),
                                       !.height = DigitsValue(m.ydigits)])
           ELSE ImRaise("Exception")
    /\ UNCHANGED <<rad_rest, pfm_vars, tmo_vars>>

\* The look at the first two bytes of the body, and the choice of the path.
\* A pair other than 0x02 0x02 runs `filetype = HDR_NONE`, a name that is
\* not defined there.
ImPeek ==
    /\ rad_reader = "imread"
    /\ im.pc = "peek"
    /\ LET two == ReadBytes(rad_file, im.pos, 2)
       IN  IF Len(two) < 2 THEN ImRaise("TypeError")
           ELSE IF two[1] # 2 \/ two[2] # 2 THEN ImRaise("NameError")
           ELSE IF im.filetype = HDR_RLE_RGBE_32
                THEN ImGoto([im EXCEPT
                        !.pc = "scanline",
                        !.tmpdata = [i \in 1..(im.width * im.height * 4) |-> 0],
                        !.nowy = 0])
           ELSE ImGoto([im EXCEPT !.pc = "flat"])
    /\ UNCHANGED <<rad_rest, pfm_vars, tmo_vars>>

\* The top of the scanline loop: the marker pair and the scanline width.
ImScanline ==
    /\ rad_reader = "imread"
    /\ im.pc = "scanline"
    /\ LET two == ReadBytes(rad_file, im.pos, 2)
           ab  == ReadBytes(rad_file, im.pos + 2, 2)
       IN  IF Len(two) < 2 \/ two[1] # 2 \/ two[2] # 2
           THEN ImGoto([im EXCEPT !.pos = im.pos + Len(two), !.pc = "reshape"])
           ELSE IF Len(ab) < 2 THEN ImRaise("TypeError")
           ELSE ImGoto([im EXCEPT !.pos = im.pos + 4, !.pc = "run",
                                  !.width = ab[1] * 256 + ab[2],
                                  !.nowx = 0, !.nowv = 0])
    /\ UNCHANGED <<rad_rest, pfm_vars, tmo_vars>>

\* The index of a buffer that holds the planes of a scanline one after
\* another.
RunIndex_planar(y, w, x, v) == (y * w * 4) + v * w + x

\* The index into tmpdata of pixel x, plane v, of scanline y, the scanline
\* being w pixels wide.
RunIndex(y, w, x, v) == (y * w + x) * 4 + v

\* The bytes a run gives, its control byte being at position pos of file:
\* an info of at most 128 gives the next info bytes, a larger one gives
\* info - 128 times the byte that follows.
RunExpansion_verbatim(file, pos) ==
    LET info == ReadBytes(file, pos, 1)[1]
    IN  ReadBytes(file, pos + 1, IF info <= 128 THEN info ELSE info - 128)

RunExpansion(file, pos) ==
    LET head == ReadBytes(file, pos, 2)
        info == head[1]
    IN  IF info <= 128 THEN ReadBytes(file, pos + 1, info)
        ELSE [i \in 1..(info - 128) |-> head[2]]

\* One turn of the run loop: the step to the next plane or out of the
\* scanline, else one literal or repeat run.
ImRun ==
    /\ rad_reader = "imread"
    /\ im.pc = "run"
    /\ LET wrap == im.nowx >= im.width
           v    == IF wrap THEN im.nowv + 1 ELSE im.nowv
           x    == IF wrap THEN 0 ELSE im.nowx
           head == ReadBytes(rad_file, im.pos, 2)
           info == head[1]
           n    == IF info <= 128 THEN info ELSE info - 128
           data == RunExpansion(rad_file, im.pos)
           used == IF info <= 128 THEN 1 + info ELSE 2
           base == RunIndex(im.nowy, im.width, x, v)
       IN  IF wrap /\ v = 4
           THEN ImGoto([im EXCEPT !.nowv = 4, !.nowx = 0, !.nowy = @ + 1,
                                  !.pc = "scanline"])
           ELSE IF Len(head) < 1 THEN ImRaise("TypeError")
           ELSE IF info > 128 /\ Len(head) < 2 THEN ImRaise("TypeError")
           ELSE IF n > 0 /\ (Len(data) < n
                               \/ RunIndex(im.nowy, im.width, x + n - 1, v)
                                      >= Len(im.tmpdata))
                THEN ImRaise("IndexError")
           ELSE /\ im' = [im EXCEPT
                     !.pos = im.pos + used, !.nowv = v, !.nowx = x + n,
                     !.tmpdata = [j \in 1..Len(im.tmpdata) |->
                                     IF /\ j - 1 >= base
                                        /\ (j - 1 - base) % 4 = 0
                                        /\ (j - 1 - base) \div 4 < n
                                     THEN data[((j - 1 - base) \div 4) + 1]
                                     ELSE im.tmpdata[j]]]
                /\ filled' = filled
                       \cup {RunIndex(im.nowy, im.width, x + i, v) : i \in 0..(n - 1)}
                /\ UNCHANGED rad_result
    /\ UNCHANGED <<rad_rest, pfm_vars, tmo_vars>>

\* tmpdata.reshape((height, width, 4)) after the scanline loop; width is the
\* local the scanline loop has assigned.
ImReshape ==
    /\ rad_reader = "imread"
    /\ im.pc = "reshape"
    /\ IF im.height * im.width * 4 = Len(im.tmpdata)
       THEN ImGoto([im EXCEPT !.pc = "convert"])
       ELSE ImRaise("ValueError")
    /\ UNCHANGED <<rad_rest, pfm_vars, tmo_vars>>

\* The flat body: width * height * 4 bytes as they come.
ImFlat ==
    /\ rad_reader = "imread"
    /\ im.pc = "flat"
    /\ LET totsize == im.width * im.height * 4
           bytes   == ReadBytes(rad_file, im.pos, totsize)
       IN  IF Len(bytes) # totsize THEN ImRaise("struct.error")
           ELSE /\ im' = [im EXCEPT !.pos = im.pos + totsize,
                                    !.tmpdata = bytes, !.pc = "convert"]
                /\ filled' = 0..(totsize - 1)
                /\ UNCHANGED rad_result
    /\ UNCHANGED <<rad_rest, pfm_vars, tmo_vars>>

\* The conversion of a buffer taken column by column.
RGBEToImage_transposed(tmpdata, height, width) ==
    [kind |-> "image",
     shape |-> <<height, width, 3>>,
     at |-> [idx \in ImageIndices(height, width) |->
                LET q == (idx[2] * height + idx[1]) * 4
                IN  [mant |-> tmpdata[q + idx[3] + 1],
                     exp2 |-> tmpdata[q + 4] - 128 - 8]]]

\* expo = 2 ** (E - 128) / 256; img = RGB * expo.  A channel of img is the
\* float mant * 2 ** exp2.
RGBEToImage(tmpdata, height, width) ==
    [kind |-> "image",
     shape |-> <<height, width, 3>>,
     at |-> [idx \in ImageIndices(height, width) |->
                LET q == (idx[1] * width + idx[2]) * 4
                IN  [mant |-> tmpdata[q + idx[3] + 1],
                     exp2 |-> tmpdata[q + 4] - 128 - 8]]]

\* The conversion of the quads, and the return.
ImConvert ==
    /\ rad_reader = "imread"
    /\ im.pc = "convert"
    /\ im' = [im EXCEPT !.pc = "done"]
    /\ rad_result' = RGBEToImage(im.tmpdata, im.height, im.width)
    /\ UNCHANGED <<filled, rad_rest, pfm_vars, tmo_vars>>

---------------------------------------------------------------------------
(* RadianceHDRHeader and RadianceHDRBody of hdrpy/io/radiance_hdr_format.py, *)
(* one action for each call of read_header and of read_body.               *)

IsKeyChar(b) == (b >= 65 /\ b <= 90) \/ b = 95

\* re.compile("([A-Z_]+)=(.*)").match(buf): ok, group 1 and group 2.
MatchKeyValue(buf) ==
    LET stops == {i \in 1..(Len(buf) + 1) : i > Len(buf) \/ ~IsKeyChar(buf[i])}
        k     == SetMin(stops) - 1
    IN  IF k >= 1 /\ k + 1 <= Len(buf) /\ buf[k + 1] = 61
        THEN [ok |-> TRUE, key |-> SubSeq(buf, 1, k),
              val |-> RestOfLine(buf, k + 2)]
        ELSE [ok |-> FALSE, key |-> <<>>, val |-> <<>>]

\* self.variables[key] = val
SetVariable(variables, key, val) ==
    [k \in (DOMAIN variables) \cup {key} |->
        IF k = key THEN val ELSE variables[k]]

FormatKey == Bytes(<<"F", "O", "R", "M", "A", "T">>)

\* RadianceHDRHeader.is_valid, FORMAT being among the variables.
is_valid(variables) ==
    variables[FormatKey] = RgbeFormat \/ variables[FormatKey] = XyzeFormat

RECURSIVE HeaderLoop_keepfirst(_, _, _)
HeaderLoop_keepfirst(file, pos, variables) ==
    LET r   == ReadLine(file, pos, BufSize)
        buf == r.line
        m   == MatchKeyValue(buf)
    IN  IF ~IsAscii(buf)
        THEN [exc |-> "UnicodeDecodeError", variables |-> variables, pos |-> r.pos]
        ELSE IF buf = <<>>
        THEN [exc |-> "IndexError", variables |-> variables, pos |-> r.pos]
        ELSE IF buf[1] = 10
        THEN [exc |-> "", variables |-> variables, pos |-> r.pos]
        ELSE IF ~m.ok \/ m.key \in DOMAIN variables
        THEN HeaderLoop_keepfirst(file, r.pos, variables)
        ELSE HeaderLoop_keepfirst(file, r.pos,
                                  SetVariable(variables, m.key, m.val))

\* The loop of read_header from position pos on: the exception that ends it
\* ("" when the empty line does), the variables and the position then.
RECURSIVE HeaderLoop(_, _, _)
HeaderLoop(file, pos, variables) ==
    LET r   == ReadLine(file, pos, BufSize)
        buf == r.line
        m   == MatchKeyValue(buf)
    IN  IF ~IsAscii(buf)
        THEN [exc |-> "UnicodeDecodeError", variables |-> variables, pos |-> r.pos]
        ELSE IF buf = <<>>
        THEN [exc |-> "IndexError", variables |-> variables, pos |-> r.pos]
        ELSE IF buf[1] = 10
        THEN [exc |-> "", variables |-> variables, pos |-> r.pos]
        ELSE IF ~m.ok THEN HeaderLoop(file, r.pos, variables)
        ELSE HeaderLoop(file, r.pos, SetVariable(variables, m.key, m.val))

\* read_header recording the position as soon as its loop has ended.
read_header_marks_early(hdr, file) ==
    LET first == ReadLine(file, 0, BufSize)
        loop  == HeaderLoop(file, first.pos, hdr.variables)
        seen  == [hdr EXCEPT !.variables = loop.variables,
                             !.header_end = loop.pos]
    IN  IF ~IsAscii(first.line)
        THEN [hdr |-> hdr, result |-> Raised("UnicodeDecodeError")]
        ELSE IF first.line \notin Signatures
        THEN [hdr |-> hdr, result |-> Raised("Exception")]
        ELSE IF loop.exc # ""
        THEN [hdr |-> seen, result |-> Raised(loop.exc)]
        ELSE IF FormatKey \notin DOMAIN loop.variables
        THEN [hdr |-> seen, result |-> Raised("KeyError")]
        ELSE IF ~is_valid(loop.variables)
        THEN [hdr |-> seen, result |-> Raised("Exception")]
        ELSE [hdr |-> seen, result |-> [kind |-> "ok"]]

\* RadianceHDRHeader.read_header on the object hdr: the object afterwards
\* and what the call returned ("ok") or raised.
read_header(hdr, file) ==
    LET first == ReadLine(file, 0, BufSize)
        loop  == HeaderLoop(file, first.pos, hdr.variables)
        seen  == [hdr EXCEPT !.variables = loop.variables]
    IN  IF ~IsAscii(first.line)
        THEN [hdr |-> hdr, result |-> Raised("UnicodeDecodeError")]
        ELSE IF first.line \notin Signatures
        THEN [hdr |-> hdr, result |-> Raised("Exception")]
        ELSE IF loop.exc # ""
        THEN [hdr |-> seen, result |-> Raised(loop.exc)]
        ELSE IF FormatKey \notin DOMAIN loop.variables
        THEN [hdr |-> seen, result |-> Raised("KeyError")]
        ELSE IF ~is_valid(loop.variables)
        THEN [hdr |-> seen, result |-> Raised("Exception")]
        ELSE [hdr |-> [seen EXCEPT !.header_end = loop.pos],
              result |-> [kind |-> "ok"]]

\* pattern.search(buf) for ([\-\+]A) ([0-9]+), A being axis: ok, the start
\* of the match (from 0) and the digits of group 2.
SearchAxis(buf, axis) ==
    LET at == {i \in 1..Len(buf) : AxisTokenAt(buf, i, axis)}
        i  == SetMin(at)
    IN  IF at = {} THEN [ok |-> FALSE, start |-> 0, digits |-> <<>>]
        ELSE [ok |-> TRUE, start |-> i - 1,
              digits |-> SubSeq(buf, i + 3, DigitRunEnd(buf, i + 3))]

\* read_resolution_string taking the first integer of the line as the height
\* and the second as the width, wherever the Y and X tokens stand.
read_resolution_string_by_place(bdy, buf) ==
    LET hm    == SearchAxis(buf, 89)
        wm    == SearchAxis(buf, 88)
        first == IF hm.start <= wm.start THEN hm ELSE wm
        later == IF hm.start <= wm.start THEN wm ELSE hm
    IN  IF hm.ok /\ wm.ok
        THEN [bdy |-> [bdy EXCEPT
                         !.height = DigitsValue(first.digits),
                         !.width = DigitsValue(later.digits),
                         !.is_rotated = IF hm.start > wm.start THEN TRUE ELSE @],
              ok |-> TRUE]
        ELSE [bdy |-> bdy, ok |-> FALSE]

\* RadianceHDRBody.read_resolution_string on the decoded line buf: the
\* object afterwards, and whether both tokens were found.  The two tests
\* `height_match == "+Y"` and `width_match == "-X"` compare a match object
\* with a string and are false for every line.
read_resolution_string(bdy, buf) ==
    LET hm == SearchAxis(buf, 89)
        wm == SearchAxis(buf, 88)
    IN  IF hm.ok /\ wm.ok
        THEN [bdy |-> [bdy EXCEPT
                         !.height = DigitsValue(hm.digits),
                         !.width = DigitsValue(wm.digits),
                         !.is_rotated = IF hm.start > wm.start THEN TRUE ELSE @],
              ok |-> TRUE]
        ELSE [bdy |-> bdy, ok |-> FALSE]

\* RadianceHDRBody.read_body on the object bdy.  A header object that no
\* read_header has completed on holds no header_end (-1 here), and the seek
\* raises AttributeError.  After the resolution line
\* it calls self.is_run_length_encoded() without the file the method takes,
\* which raises TypeError: no statement after that call runs.
read_body(bdy, file, hdr) ==
    LET r   == ReadLine(file, hdr.header_end, BufSize)
        res == read_resolution_string(bdy, r.line)
    IN  IF hdr.header_end = -1
        THEN [bdy |-> bdy, result |-> Raised("AttributeError")]
        ELSE IF ~IsAscii(r.line)
        THEN [bdy |-> bdy, result |-> Raised("UnicodeDecodeError")]
        ELSE IF ~res.ok THEN [bdy |-> bdy, result |-> Raised("Exception")]
        ELSE [bdy |-> [res.bdy EXCEPT !.record_start = r.pos],
              result |-> Raised("TypeError")]

\* RadianceHDRHeader()
HeaderInit == [variables |-> <<>>, header_end |-> -1]

\* RadianceHDRBody()
BodyInit ==
    [height |-> 0, width |-> 0, pixel_values |-> <<>>, is_fliplr |-> FALSE,
     is_flipud |-> FALSE, is_rotated |-> FALSE, record_start |-> -1]

im_rest == <<rad_input, rad_file, rad_reader, im, filled, rad_result>>

\* header.read_header(im_file)
IoReadHeader ==
    /\ rad_reader \in {"io", "io_again"}
    /\ header_result = NoResult
    /\ LET r == read_header(header, rad_file)
       IN  /\ header' = r.hdr
           /\ header_result' = r.result
    /\ UNCHANGED <<body, body_result, im_rest, pfm_vars, tmo_vars>>

\* body.read_body(im_file, header)
IoReadBody ==
    /\ rad_reader \in {"io", "io_again"}
    /\ header_result # NoResult
    /\ body_result = NoResult
    /\ LET r == read_body(body, rad_file, header)
       IN  /\ body' = r.bdy
           /\ body_result' = r.result
    /\ UNCHANGED <<header, header_result, im_rest, pfm_vars, tmo_vars>>

---------------------------------------------------------------------------
(* The Radiance files read: a header of lines, a resolution line and a     *)
(* body of scanline blocks, the last block cut short by some bytes.        *)

LineKinds ==
    {"sig_radiance", "sig_rgbe", "comment", "format_rgbe", "format_xyze",
     "format_other", "exposure", "blank"}

LineText(kind) ==
    CASE kind = "sig_radiance" ->
            Bytes(<<"#", "?", "R", "A", "D", "I", "A", "N", "C", "E", "\n">>)
      [] kind = "sig_rgbe" -> Bytes(<<"#", "?", "R", "G", "B", "E", "\n">>)
      [] kind = "comment" -> Bytes(<<"#", " ", "t", "e", "x", "t", "\n">>)
      [] kind = "format_rgbe" -> FormatKey \o <<61>> \o RgbeFormat \o <<10>>
      [] kind = "format_xyze" -> FormatKey \o <<61>> \o XyzeFormat \o <<10>>
      [] kind = "format_other" ->
            FormatKey \o Bytes(<<"=", "3", "2", "-", "b", "i", "t", "\n">>)
      [] kind = "exposure" ->
            Bytes(<<"E", "X", "P", "O", "S", "U", "R", "E", "=", "2", ".", "5", "\n">>)
      [] kind = "blank" -> <<10>>

RECURSIVE Concat(_)
Concat(seqs) == IF Len(seqs) = 0 THEN <<>> ELSE Head(seqs) \o Concat(Tail(seqs))

\* The sequences of at most n elements of S.
RECURSIVE SeqsUpTo(_, _)
SeqsUpTo(S, n) ==
    IF n = 0 THEN {<<>>}
    ELSE SeqsUpTo(S, n - 1)
         \cup {Append(q, x) : q \in {p \in SeqsUpTo(S, n - 1) : Len(p) = n - 1},
                              x \in S}

\* A resolution line as written: the axis tokens present (form), their
\* order, their signs and their integers.
ResText(res) ==
    LET y == <<res.ysign, 89, 32>> \o Dec(res.hval)
        x == <<res.xsign, 88, 32>> \o Dec(res.wval)
    IN  CASE res.form = "noY" -> x \o <<10>>
          [] res.form = "noX" -> y \o <<10>>
          [] res.order = "YX" -> y \o <<32>> \o x \o <<10>>
          [] OTHER -> x \o <<32>> \o y \o <<10>>

\* The bytes the planes R, G, B, E of the blocks carry.
PlaneByte(v, x) == (<<64, 32, 16, 128>>)[v + 1] + x

\* A run-length encoded plane of w pixels as one repeat run.
RepPlane(v, w) == IF w = 0 THEN <<0>> ELSE <<128 + w, PlaneByte(v, 0)>>

\* A plane of w pixels as one literal run.
LitPlane(v, w) == <<w>> \o [x \in 1..w |-> PlaneByte(v, x - 1)]

\* A plane of w pixels as a repeat run of one pixel and a literal run of
\* the others.
MixPlane(v, w) ==
    IF w <= 1 THEN RepPlane(v, w)
    ELSE <<129, PlaneByte(v, 0), w - 1>> \o [x \in 1..(w - 1) |-> PlaneByte(v, x)]

BlockKinds ==
    {"rep", "lit", "mix", "zero", "dark", "narrow", "wide", "over", "badmark"}

\* The bytes of a block for an image w pixels wide: a scanline of repeat
\* runs, of literal runs, of both, of literal runs after zero-length ones,
\* of repeat
\* runs whose exponent byte is 0, of a width
\* one less or one more than w, with a first run one pixel too long; or a
\* pair of bytes that is no scanline marker; "void" is a scanline of width 0.
BlockBytes(kind, w) ==
    LET planes(P(_, _), n) == P(0, n) \o P(1, n) \o P(2, n) \o P(3, n)
        zplane(v, n) == <<0>> \o LitPlane(v, n)
    IN  CASE kind = "rep" -> <<2, 2, 0, w>> \o planes(RepPlane, w)
          [] kind = "lit" -> <<2, 2, 0, w>> \o planes(LitPlane, w)
          [] kind = "mix" -> <<2, 2, 0, w>> \o planes(MixPlane, w)
          [] kind = "zero" -> <<2, 2, 0, w>> \o planes(zplane, w)
          [] kind = "narrow" ->
                IF w = 1 THEN <<2, 2, 0, 0, 0, 0, 0>>
                ELSE <<2, 2, 0, w - 1>> \o planes(RepPlane, w - 1)
          [] kind = "wide" -> <<2, 2, 0, w + 1>> \o planes(RepPlane, w + 1)
          [] kind = "dark" ->
                <<2, 2, 0, w>> \o RepPlane(0, w) \o RepPlane(1, w)
                    \o RepPlane(2, w) \o <<128 + w, 0>>
          [] kind = "over" ->
                <<2, 2, 0, w>> \o RepPlane(0, w + 1) \o RepPlane(1, w)
                    \o RepPlane(2, w) \o RepPlane(3, w)
          [] kind = "badmark" -> <<2, 1>>
          [] kind = "void" -> <<2, 2, 0, 0, 0, 0, 0>>

BodyBytes(blocks, w, cut) ==
    LET all == Concat([i \in 1..Len(blocks) |-> BlockBytes(blocks[i], w)])
    IN  SubSeq(all, 1, Len(all) - cut)

RenderFile(inp) ==
    Concat([i \in 1..Len(inp.lines) |-> LineText(inp.lines[i])])
        \o ResText(inp.res)
        \o BodyBytes(inp.blocks, inp.res.wval, inp.cut)

CanonicalRes(h, w) ==
    [form |-> "both", order |-> "YX", ysign |-> 45, xsign |-> 43,
     hval |-> h, wval |-> w]

\* Headers of a signature, MaxHeaderLines - 1 lines and the empty line.
FramedHeaders ==
    { <<sig>> \o mid \o <<"blank">> :
        sig \in {"sig_radiance", "sig_rgbe"},
        mid \in { p \in SeqsUpTo(LineKinds, MaxHeaderLines - 1) :
                    Len(p) = MaxHeaderLines - 1 } }

\* Files that differ in their header lines.
HeaderInputs ==
    {[family |-> "header", lines |-> ls, res |-> CanonicalRes(1, 1),
      blocks |-> <<"rep">>, cut |-> 0] :
        ls \in SeqsUpTo(LineKinds, MaxHeaderLines) \cup FramedHeaders}

ResValues == {0, 1, 2, 4, 8}

ResRecords ==
    [form : {"both", "noY", "noX"}, order : {"YX", "XY"}, ysign : {43, 45},
     xsign : {43, 45}, hval : ResValues, wval : ResValues]

\* Files that differ in their resolution line; the body holds hval
\* scanlines of wval pixels, or one scanline of width 0 for an empty image.
ResolutionInputs ==
    {[family |-> "resolution",
      lines |-> <<"sig_radiance", "format_rgbe", "blank">>,
      res |-> res,
      blocks |-> IF res.hval > 0 /\ res.wval > 0
                 THEN [i \in 1..res.hval |-> "rep"] ELSE <<"void">>,
      cut |-> 0] :
        res \in ResRecords}

BodyShapes == {<<1, 1>>, <<2, 1>>, <<2, 2>>}

\* Files that differ in their body, under a header that names the rgbe or
\* the xyze format: the blocks bs, the last of them cut short by any number
\* of its bytes.
BodyCuts(fmt, hw, bs) ==
    {[family |-> "body", lines |-> <<"sig_rgbe", fmt, "blank">>,
      res |-> CanonicalRes(hw[1], hw[2]), blocks |-> bs, cut |-> cut] :
        cut \in IF Len(bs) = 0 THEN {0}
                ELSE 0..(Len(BlockBytes(bs[Len(bs)], hw[2])) - 1)}

\* A file of each family, read by imread or (header and resolution families)
\* by the header and body objects.
RadInit ==
    /\ \/ rad_input \in HeaderInputs
       \/ rad_input \in ResolutionInputs
       \/ \E fmt \in {"format_rgbe", "format_xyze"}, hw \in BodyShapes,
             bs \in SeqsUpTo(BlockKinds, MaxBlocks) :
                rad_input \in BodyCuts(fmt, hw, bs)
    /\ rad_file = RenderFile(rad_input)
    /\ rad_reader \in IF rad_input.family = "body" THEN {"imread"}
                      ELSE {"imread", "io"}
    /\ im = ImInit
    /\ filled = {}
    /\ rad_result = NoResult
    /\ header = HeaderInit
    /\ header_result = NoResult
    /\ body = BodyInit
    /\ body_result = NoResult
    /\ pfm_image = NoResult
    /\ pfm_file = <<>>
    /\ pfm_src = "none"
    /\ pfm_result = NoResult
    /\ tmo_heap = <<>>
    /\ tmo_hist = <<>>

\* The files a header and a body object read after their first file.
ReuseLines ==
    {<<"sig_radiance", "format_rgbe", "blank">>,
     <<"sig_rgbe", "format_xyze", "blank">>,
     <<"sig_rgbe", "exposure", "blank">>,
     <<"comment", "blank">>}

ReuseRes ==
    {CanonicalRes(1, 1),
     [CanonicalRes(2, 4) EXCEPT !.order = "XY"],
     [CanonicalRes(1, 1) EXCEPT !.form = "noX"]}

ReuseInputs ==
    {[family |-> "reuse", lines |-> ls, res |-> res,
      blocks |-> [i \in 1..res.hval |-> "rep"], cut |-> 0] :
        ls \in ReuseLines, res \in ReuseRes}

\* The caller opens another file for the header and the body object that
\* have read one: read_header and read_body are called on it next.
IoReuse ==
    /\ rad_reader = "io"
    /\ header_result # NoResult
    /\ body_result # NoResult
    /\ rad_input' \in ReuseInputs
    /\ rad_file' = RenderFile(rad_input')
    /\ rad_reader' = "io_again"
    /\ header_result' = NoResult
    /\ body_result' = NoResult
    /\ UNCHANGED <<header, body, im, filled, rad_result, pfm_vars, tmo_vars>>

RadNext ==
    \/ ImHeaderLine
    \/ ImHeaderCheck
    \/ ImResolution
    \/ ImPeek
    \/ ImScanline
    \/ ImRun
    \/ ImReshape
    \/ ImFlat
    \/ ImConvert
    \/ IoReadHeader
    \/ IoReadBody
    \/ IoReuse

SpecRad == RadInit /\ [][RadNext]_vars

---------------------------------------------------------------------------
(* hdrpy.io.write of hdrpy/io/imwrite.py.  The image is the caller's array: *)
(* what write assigns into it, the caller sees.                            *)

\* np.isnan and np.isinf on a binary32 pattern
np_isnan(x) == x.e = 255 /\ x.m # 0

np_isinf(x) == x.e = 255 /\ x.m = 0

\* if nan_sub is not None: image[np.isnan(image)] = nan_sub
SubstituteNaN(image, nan_sub) ==
    IF nan_sub = NoResult THEN image
    ELSE [image EXCEPT !.at = [idx \in DOMAIN image.at |->
                                  IF np_isnan(image.at[idx]) THEN nan_sub
                                  ELSE image.at[idx]]]

\* if inf_sub is not None: image[np.isinf(image)] = inf_sub
SubstituteInf(image, inf_sub) ==
    IF inf_sub = NoResult THEN image
    ELSE [image EXCEPT !.at = [idx \in DOMAIN image.at |->
                                  IF np_isinf(image.at[idx]) THEN inf_sub
                                  ELSE image.at[idx]]]

\* What astype(np.uint8) may give for NaN, which C leaves undefined: 0 from
\* a scalar conversion, 255 from a saturating one.
NaNBytes == {0, 255}

\* (np.clip(x, 0, 1) * 255).astype(np.uint8) for one entry x.
ClipToByte(x, nanbyte) ==
    LET M == 8388608 + x.m
        q == M \div 32768
        r == M % 32768
    IN  IF np_isnan(x) THEN nanbyte
        ELSE IF x.s = 1 \/ x.e < 119 THEN 0
        ELSE IF x.e >= 127 THEN 255
        ELSE (255 * q + (255 * r) \div 32768) \div (2 ^ (8 + 127 - x.e))

\* pil_writer: the samples handed to Image.fromarray, in C order; the clip
\* makes a new array, which is the one scaled in place.
pil_writer(image, nanbyte) ==
    LET flat == Reshape(image)
    IN  [k \in 1..Len(flat) |-> ClipToByte(flat[k], nanbyte)]

WriteExts == {".pfm", ".png", ".hdr", ".exr"}

\* write(path, image, nan_sub, inf_sub), ext being the suffix of path in
\* lower case: the caller's array afterwards, the file and the outcome.
write(image, ext, nan_sub, inf_sub, nanbyte) ==
    LET subbed == SubstituteInf(SubstituteNaN(image, nan_sub), inf_sub)
    IN  IF ext \in {".hdr", ".exr"}
        THEN [image |-> subbed, file |-> <<>>,
              result |-> Raised("NotImplementedError")]
        ELSE IF ext = ".pfm"
        THEN [image |-> subbed, file |-> PFMWrite(subbed),
              result |-> [kind |-> "written"]]
        ELSE [image |-> subbed, file |-> pil_writer(subbed, nanbyte),
              result |-> [kind |-> "written"]]

\* nan_sub and inf_sub: None, 0.0 or 1.0
WriteSubs == {NoResult, Palette[1], Palette[2]}

\* hdrpy.io.write(path, image, nan_sub, inf_sub)
IoWrite ==
    /\ pfm_src = "none"
    /\ \E ext \in WriteExts, nan_sub \in WriteSubs, inf_sub \in WriteSubs,
          nanbyte \in NaNBytes :
          LET r == write(pfm_image, ext, nan_sub, inf_sub, nanbyte)
          IN  /\ pfm_image' = r.image
              /\ pfm_file' = r.file
              /\ pfm_result' = r.result
              /\ pfm_src' = ext
    /\ UNCHANGED <<rad_vars, tmo_vars>>

PfmNext == PfmWrite \/ PfmTruncate \/ PfmOtherMagic \/ PfmRead \/ IoWrite

SpecPfm == PfmInit /\ [][PfmNext]_vars

---------------------------------------------------------------------------
(* The floats of the tone operators.  A finite float is the number         *)
(* (n / d) * 2^e * F^f, F being the largest finite float32 (what           *)
(* np.finfo(np.float32).max gives), written with n and d odd and coprime;  *)
(* zero has n = 0.  Products, quotients and sums of floats with the same f *)
(* are exact; a sum of floats with different f, or 2^24 apart, is the      *)
(* larger term, as rounding leaves it.  Zero carries no sign.              *)

NaN == [k |-> "nan", n |-> 0, d |-> 1, e |-> 0, f |-> 0]

\* +Inf for sign 1, -Inf for sign -1.
Inf(sign) == [k |-> "inf", n |-> sign, d |-> 1, e |-> 0, f |-> 0]

Zero == [k |-> "fin", n |-> 0, d |-> 1, e |-> 0, f |-> 0]

Abs(i) == IF i < 0 THEN -i ELSE i

Sgn(i) == IF i < 0 THEN -1 ELSE IF i = 0 THEN 0 ELSE 1

RECURSIVE Gcd(_, _)
Gcd(a, b) == IF b = 0 THEN a ELSE Gcd(b, a % b)

RECURSIVE Pow2(_)
Pow2(i) == IF i = 0 THEN 1 ELSE 2 * Pow2(i - 1)

\* How many times 2 divides the positive integer i.
RECURSIVE Twos(_)
Twos(i) == IF i % 2 = 0 THEN 1 + Twos(i \div 2) ELSE 0

\* The float (n / d) * 2^e * F^f, d > 0, in its unique form.
Fin(n, d, e, f) ==
    IF n = 0 THEN Zero
    ELSE LET g  == Gcd(Abs(n), d)
             a  == Abs(n) \div g
             b  == d \div g
             ta == Twos(a)
             tb == Twos(b)
         IN  [k |-> "fin", n |-> Sgn(n) * (a \div Pow2(ta)),
              d |-> b \div Pow2(tb), e |-> e + ta - tb, f |-> f]

\* The float of the fraction n / d.
Rat(n, d) == Fin(n, d, 0, 0)

\* np.finfo(np.float32).max
FMax == [k |-> "fin", n |-> 1, d |-> 1, e |-> 0, f |-> 1]

\* np.isnan, np.isinf
IsNaN(x) == x.k = "nan"

IsInf(x) == x.k = "inf"

\* The floats modelled are those whose n and d stay within MaxTerm.
MaxTerm == 32767

\* A float outside the floats modelled; whatever is computed from it is
\* outside them too.
Irr == [k |-> "irr", n |-> 0, d |-> 1, e |-> 0, f |-> 0]

Model(v) ==
    IF v.k = "fin" /\ (Abs(v.n) > MaxTerm \/ v.d > MaxTerm) THEN Irr ELSE v

\* a * b is within 2^30.
Fits(a, b) == b = 0 \/ Abs(a) <= 1073741823 \div Abs(b)

Neg(x) == [x EXCEPT !.n = -x.n]

\* x * y
Mul(x, y) ==
    IF x = Irr \/ y = Irr THEN Irr
    ELSE IF IsNaN(x) \/ IsNaN(y) THEN NaN
    ELSE IF IsInf(x) \/ IsInf(y)
    THEN IF x = Zero \/ y = Zero THEN NaN ELSE Inf(Sgn(x.n) * Sgn(y.n))
    ELSE LET g1 == Gcd(Abs(x.n), y.d)
             g2 == Gcd(Abs(y.n), x.d)
         IN  Model(Fin((x.n \div g1) * (y.n \div g2),
                       (x.d \div g2) * (y.d \div g1),
                       x.e + y.e, x.f + y.f))

\* x / y; a division by zero gives NaN or an infinity, as numpy's does.
Div(x, y) ==
    IF x = Irr \/ y = Irr THEN Irr
    ELSE IF IsNaN(x) \/ IsNaN(y) THEN NaN
    ELSE IF y = Zero THEN (IF x = Zero THEN NaN ELSE Inf(Sgn(x.n)))
    ELSE IF IsInf(y) THEN (IF IsInf(x) THEN NaN ELSE Zero)
    ELSE IF IsInf(x) THEN Inf(Sgn(x.n) * Sgn(y.n))
    ELSE Mul(x, [k |-> "fin", n |-> Sgn(y.n) * y.d, d |-> Abs(y.n),
                 e |-> -y.e, f |-> -y.f])

\* x + y.  A term 2^24 times under the other, the width of a float32, is
\* lost in the sum.
Add(x, y) ==
    IF x = Irr \/ y = Irr THEN Irr
    ELSE IF IsNaN(x) \/ IsNaN(y) THEN NaN
    ELSE IF IsInf(x) THEN (IF IsInf(y) /\ y.n # x.n THEN NaN ELSE x)
    ELSE IF IsInf(y) THEN y
    ELSE IF x = Zero THEN y
    ELSE IF y = Zero THEN x
    ELSE IF x.f # y.f THEN (IF x.f > y.f THEN x ELSE y)
    ELSE IF x.e - y.e > 24 THEN x
    ELSE IF y.e - x.e > 24 THEN y
    ELSE LET m  == IF x.e < y.e THEN x.e ELSE y.e
             g  == Gcd(x.d, y.d)
             px == Pow2(x.e - m) * (y.d \div g)
             py == Pow2(y.e - m) * (x.d \div g)
         IN  IF Fits(x.n, px) /\ Fits(y.n, py)
             THEN Model(Fin(x.n * px + y.n * py, (x.d \div g) * y.d, m, x.f))
             ELSE Irr

\* x == y, x < y, x <= y: false when either is NaN.
NumEq(x, y) == ~IsNaN(x) /\ ~IsNaN(y) /\ x = y

\* x < y for finite x and y above 0.
LtPos(x, y) ==
    IF x.f # y.f THEN x.f < y.f
    ELSE LET a == x.n * y.d
             b == y.n * x.d
             j == x.e - y.e
         IN  IF j >= 0 THEN j <= 30 /\ a <= (b - 1) \div Pow2(j)
             ELSE -j > 30 \/ b > a \div Pow2(-j)

Lt(x, y) ==
    /\ ~IsNaN(x) /\ ~IsNaN(y) /\ x # y
    /\ x # Inf(1) /\ y # Inf(-1)
    /\ \/ x = Inf(-1)
       \/ y = Inf(1)
       \/ Sgn(x.n) < Sgn(y.n)
       \/ Sgn(x.n) = 1 /\ Sgn(y.n) = 1 /\ LtPos(x, y)
       \/ Sgn(x.n) = -1 /\ Sgn(y.n) = -1 /\ LtPos(Neg(y), Neg(x))

Leq(x, y) == NumEq(x, y) \/ Lt(x, y)

\* np.clip(x, lo, hi) of one entry: NaN stays NaN.
Clip(x, lo, hi) ==
    IF IsNaN(x) THEN x ELSE IF Lt(x, lo) THEN lo ELSE IF Lt(hi, x) THEN hi ELSE x

---------------------------------------------------------------------------
(* The tone operators.  An array is its shape and its entries in C order;  *)
(* arrays live on a heap and are named by their number there, so that a    *)
(* copy and an alias differ.  Every function gives the heap afterwards,    *)
(* the number of the array returned (ret), the float returned (val), the   *)
(* exception raised ("" for none) and the calls it made (trace).           *)

\* None, and the string "Inf", where a float argument is optional.
None == [k |-> "none", n |-> 0, d |-> 1, e |-> 0, f |-> 0]

InfStr == [k |-> "str", n |-> 0, d |-> 1, e |-> 0, f |-> 0]

Alloc(heap, arr) == Append(heap, arr)

Returned(heap, ret, trace) ==
    [heap |-> heap, ret |-> ret, val |-> None, exc |-> "", trace |-> trace]

Value(heap, val, trace) ==
    [heap |-> heap, ret |-> 0, val |-> val, exc |-> "", trace |-> trace]

Failed(heap, exc, trace) ==
    [heap |-> heap, ret |-> 0, val |-> None, exc |-> exc, trace |-> trace]

\* One entry of a trace: the function called, the arrays handed to it and
\* the float it returned, if it returns one.
Called(fn, args) == [fn |-> fn, args |-> args, val |-> None]

\* a[mask] = v
Assign(data, mask(_), v) ==
    [i \in DOMAIN data |-> IF mask(data[i]) THEN v ELSE data[i]]

\* np.amax(a): NaN if any entry is NaN.
RECURSIVE Amax(_)
Amax(data) ==
    IF Len(data) = 1 THEN data[1]
    ELSE LET m == Amax(Tail(data))
         IN  IF data[1] = Irr \/ m = Irr THEN Irr
             ELSE IF IsNaN(data[1]) \/ IsNaN(m) THEN NaN
             ELSE IF Lt(m, data[1]) THEN data[1] ELSE m

RECURSIVE SumE(_)
SumE(data) == IF Len(data) = 0 THEN 0 ELSE data[1].e + SumE(Tail(data))

RECURSIVE SumF(_)
SumF(data) == IF Len(data) = 0 THEN 0 ELSE data[1].f + SumF(Tail(data))

\* np.exp(np.log(a).mean()) over all entries of a.  The logarithm of a
\* negative entry is NaN, that of 0 is -Inf.  The root of the product of
\* positive entries is taken where they share n / d and the exponents of 2
\* and of F add up to multiples of their number; it is Irr elsewhere.
ExpMeanLog(data) ==
    LET N    == Len(data)
        some(P(_)) == \E i \in 1..N : P(data[i])
        bad(v)  == IsNaN(v) \/ Lt(v, Zero)
        zero(v) == v = Zero
        pinf(v) == v = Inf(1)
    IN  IF some(bad) THEN NaN
        ELSE IF some(zero) /\ some(pinf) THEN NaN
        ELSE IF some(zero) THEN Zero
        ELSE IF some(pinf) THEN Inf(1)
        ELSE IF /\ \A i \in 1..N : data[i].n = data[1].n /\ data[i].d = data[1].d
                /\ SumE(data) % N = 0
                /\ SumF(data) % N = 0
             THEN Fin(data[1].n, data[1].d, SumE(data) \div N, SumF(data) \div N)
        ELSE Irr

\* a_c = a.copy(); a_c[a_c <= 0] = eps; a_c[np.isnan(a_c)] = eps: the heap
\* with the copy, which is its last array.
GmeanCopy(heap, a, eps) ==
    LET a_c  == heap[a].data
        neg(v) == Leq(v, Zero)
        a_c1 == IF eps = None THEN a_c ELSE Assign(a_c, neg, eps)
        a_c2 == IF eps = None THEN a_c1 ELSE Assign(a_c1, IsNaN, eps)
    IN  Alloc(heap, [heap[a] EXCEPT !.data = a_c2])

\* What gmean returns when it hands the array number logged to np.log.
GmeanOf(heap, a, logged) ==
    LET val == ExpMeanLog(heap[logged].data)
    IN  Value(heap, val,
              <<[fn |-> "gmean", args |-> <<a>>, val |-> val],
                [fn |-> "np.log", args |-> <<logged>>, val |-> None]>>)

\* gmean of src/stats.py: np.log(a_c).
gmean(heap, a, eps) ==
    LET h == GmeanCopy(heap, a, eps) IN GmeanOf(h, a, Len(h))

\* gmean of hdrpy/math.py: np.log(a).
gmean_math(heap, a, eps) ==
    LET h == GmeanCopy(heap, a, eps) IN GmeanOf(h, a, a)

One == Rat(1, 1)

\* An int where a float is looked for.
IntOne == [k |-> "int", n |-> 1, d |-> 1, e |-> 0, f |-> 0]

\* sys.float_info.epsilon
FloatEps == Fin(1, 1, -52, 0)

\* The calls pre come ahead of the calls of r.
After(pre, r) == [r EXCEPT !.trace = pre \o @]

\* multiply_scalar of hdrpy/tmo/linear.py
multiply_scalar(heap, intensity, factor, nan_sub, inf_sub, minus_sub) ==
    LET neg(v) == Leq(v, Zero)
        prod == [i \in DOMAIN heap[intensity].data |->
                    Mul(heap[intensity].data[i], factor)]
        s1   == IF nan_sub = None THEN prod ELSE Assign(prod, IsNaN, nan_sub)
        s2   == IF inf_sub = None THEN s1
                ELSE IF inf_sub = InfStr THEN Assign(s1, IsInf, FMax)
                ELSE Assign(s1, IsInf, inf_sub)
        s3   == IF minus_sub = None THEN s2 ELSE Assign(s2, neg, minus_sub)
        me   == <<Called("multiply_scalar", <<intensity>>)>>
    IN  IF inf_sub.k = "int"
        THEN Failed(Alloc(heap, [heap[intensity] EXCEPT !.data = s1]),
                    "ValueError", me)
        ELSE Returned(Alloc(heap, [heap[intensity] EXCEPT !.data = s3]),
                      Len(heap) + 1, me)

\* 0.18 * (2**ev)
ev2gmean(ev) == Mul(Rat(18, 100), Fin(1, 1, ev, 0))

\* multiply_scalar of hdrpy/tmo/preprocessing.py: replaced_intensity is
\* another name of the argument, whose zeros are overwritten.
preprocessing_multiply_scalar(heap, intensity, factor, ev) ==
    LET zero(v) == NumEq(v, Zero)
        h1   == [heap EXCEPT ![intensity].data = Assign(@, zero, FloatEps)]
        g    == ExpMeanLog(h1[intensity].data)
        fac  == IF factor = None THEN Div(ev2gmean(ev), g) ELSE factor
        out  == [i \in DOMAIN h1[intensity].data |->
                    Mul(h1[intensity].data[i], fac)]
    IN  Returned(Alloc(h1, [h1[intensity] EXCEPT !.data = out]),
                 Len(heap) + 1,
                 <<Called("multiply_scalar", <<intensity>>)>>
                 \o IF factor = None
                    THEN <<[fn |-> "scipy.gmean", args |-> <<intensity>>,
                            val |-> g]>>
                    ELSE <<>>)

\* The weights of R, G and B in the luminance of an sRGB colour.
LumaWeights == <<Rat(2126, 10000), Rat(7152, 10000), Rat(722, 10000)>>

\* get_luminance of hdrpy/image.py: the dot product of every pixel with the
\* weights; an array whose last axis is not 3 long has none.
get_luminance(heap, image) ==
    LET a  == heap[image]
        me == <<Called("get_luminance", <<image>>)>>
    IN  IF Len(a.shape) # 3 \/ a.shape[Len(a.shape)] # 3
        THEN Failed(heap, "ValueError", me)
        ELSE Returned(
                Alloc(heap,
                      [shape |-> <<a.shape[1], a.shape[2]>>,
                       data |-> [p \in 1..(a.shape[1] * a.shape[2]) |->
                           Add(Add(Mul(LumaWeights[1], a.data[3 * p - 2]),
                                   Mul(LumaWeights[2], a.data[3 * p - 1])),
                               Mul(LumaWeights[3], a.data[3 * p]))]]),
                Len(heap) + 1, me)

replace_luminance_divide(heap, image, luminance, org_luminance) ==
    LET img   == heap[image]
        ratio == [i \in DOMAIN heap[luminance].data |->
                     Div(Clip(heap[luminance].data[i], Zero, FMax),
                         heap[org_luminance].data[i])]
    IN  Returned(
            Alloc(Alloc(heap, [heap[luminance] EXCEPT !.data = ratio]),
                  [img EXCEPT !.data =
                      [i \in DOMAIN img.data |->
                          Mul(img.data[i], ratio[((i - 1) \div 3) + 1])]]),
            Len(heap) + 2,
            <<Called("replace_luminance",
                     <<image, luminance, org_luminance>>)>>)

\* replace_luminance of src/tmo/operator.py, org_luminance being given.
replace_luminance(heap, image, luminance, org_luminance) ==
    LET img   == heap[image]
        org   == heap[org_luminance]
        lum   == [i \in DOMAIN heap[luminance].data |->
                     Clip(heap[luminance].data[i], Zero, FMax)]
        ratio == [i \in DOMAIN lum |->
                     IF NumEq(org.data[i], Zero) THEN Zero
                     ELSE Div(lum[i], org.data[i])]
        h1    == Alloc(heap, [heap[luminance] EXCEPT !.data = ratio])
        me    == <<Called("replace_luminance",
                          <<image, luminance, org_luminance>>)>>
    IN  IF heap[luminance].shape # org.shape
        THEN Failed(Alloc(heap, [heap[luminance] EXCEPT !.data = lum]),
                    "IndexError", me)
        ELSE IF Len(img.shape) = 3
        THEN IF <<img.shape[1], img.shape[2]>> # org.shape
             THEN Failed(h1, "ValueError", me)
             ELSE Returned(
                    Alloc(h1, [img EXCEPT !.data =
                        [i \in DOMAIN img.data |->
                            Mul(img.data[i],
                                ratio[((i - 1) \div img.shape[3]) + 1])]]),
                    Len(heap) + 2, me)
        ELSE IF img.shape # org.shape THEN Failed(h1, "ValueError", me)
        ELSE Returned(
                Alloc(h1, [img EXCEPT !.data =
                    [i \in DOMAIN img.data |-> Mul(img.data[i], ratio[i])]]),
                Len(heap) + 2, me)

\* reinhard_curve of hdrpy/tmo/reinhard.py
reinhard_curve(heap, lum, lum_ave, lum_white) ==
    LET l(i)  == Clip(heap[lum].data[i], Zero, FMax)
        la(i) == Clip(heap[lum_ave].data[i], Zero, FMax)
        w2    == Mul(lum_white, lum_white)
    IN  Returned(
            Alloc(heap, [heap[lum] EXCEPT !.data =
                [i \in DOMAIN heap[lum].data |->
                    Mul(Div(l(i), Add(One, la(i))),
                        Add(One, Div(l(i), w2)))]]),
            Len(heap) + 1, <<Called("reinhard_curve", <<lum, lum_ave>>)>>)

\* x ** exponent for a whole exponent of at least 1.
RECURSIVE PowN(_, _)
PowN(x, exponent) ==
    IF exponent = 1 THEN x ELSE Mul(x, PowN(x, exponent - 1))

\* eilertsen_curve of hdrpy/tmo/eilertsen.py
eilertsen_curve(heap, intensity, exponent, sigma) ==
    LET p(i) == PowN(Clip(heap[intensity].data[i], Zero, FMax), exponent)
    IN  Returned(
            Alloc(heap, [heap[intensity] EXCEPT !.data =
                [i \in DOMAIN heap[intensity].data |->
                    Mul(Add(One, sigma), Div(p(i), Add(p(i), sigma)))]]),
            Len(heap) + 1, <<Called("eilertsen_curve", <<intensity>>)>>)

\* kinoshita_curve of src/hdrpy/tmo/kinoshita.py
kinoshita_curve(heap, luminance, eps) ==
    LET one(v) == NumEq(v, One)
        lum == Assign(heap[luminance].data, one, Add(One, Neg(eps)))
        h1  == Alloc(heap, [heap[luminance] EXCEPT !.data = lum])
    IN  Returned(
            Alloc(h1, [heap[luminance] EXCEPT !.data =
                [i \in DOMAIN lum |-> Div(lum[i], Add(One, Neg(lum[i])))]]),
            Len(heap) + 2, <<Called("kinoshita_curve", <<luminance>>)>>)

\* The operator objects: op names the class, the other fields are what
\* __init__ was given (x the float parameter, sub the operators wrapped).
ExposureCompensation(ev, eps) ==
    [op |-> "ExposureCompensation", mode |-> "", ev |-> ev, exponent |-> 0,
     x |-> eps, sub |-> <<>>]

NormalizeRange(mode) ==
    [op |-> "NormalizeRange", mode |-> mode, ev |-> 0, exponent |-> 0,
     x |-> None, sub |-> <<>>]

\* whitepoint "Inf" is kept as float("Inf").
ReinhardCurve(mode, whitepoint) ==
    [op |-> "ReinhardCurve", mode |-> mode, ev |-> 0, exponent |-> 0,
     x |-> IF whitepoint = InfStr THEN Inf(1) ELSE whitepoint, sub |-> <<>>]

EilertsenCurve(exponent, sigma) ==
    [op |-> "EilertsenCurve", mode |-> "", ev |-> 0, exponent |-> exponent,
     x |-> sigma, sub |-> <<>>]

ReplaceLuminance(processing) ==
    [op |-> "ReplaceLuminance", mode |-> "", ev |-> 0, exponent |-> 0,
     x |-> None, sub |-> <<processing>>]

Compose(processings) ==
    [op |-> "Compose", mode |-> "", ev |-> 0, exponent |-> 0, x |-> None,
     sub |-> processings]

\* The default eps of ExposureCompensation, 1e-6, to the next power of 2.
DefaultEps == Fin(1, 1, -20, 0)

ReinhardTMO(ev, mode, whitepoint) ==
    [op |-> "ReinhardTMO", mode |-> mode, ev |-> ev, exponent |-> 0,
     x |-> whitepoint,
     sub |-> <<ReplaceLuminance(
                 Compose(<<ExposureCompensation(ev, DefaultEps),
                           ReinhardCurve(mode, whitepoint)>>))>>]

EilertsenTMO_on_luminance(ev, exponent, sigma) ==
    [op |-> "EilertsenTMO", mode |-> "", ev |-> ev, exponent |-> exponent,
     x |-> sigma,
     sub |-> <<ReplaceLuminance(
                 Compose(<<ExposureCompensation(ev, DefaultEps),
                           EilertsenCurve(exponent, sigma)>>))>>]

EilertsenTMO(ev, exponent, sigma) ==
    [op |-> "EilertsenTMO", mode |-> "", ev |-> ev, exponent |-> exponent,
     x |-> sigma,
     sub |-> <<Compose(
                 <<ReplaceLuminance(ExposureCompensation(ev, DefaultEps)),
                   EilertsenCurve(exponent, sigma)>>)>>]

CallExposureCompensation_luminance(heap, f, image) ==
    LET org == get_luminance(heap, image)
        of  == IF org.exc = "" THEN org.ret ELSE image
        g   == gmean(org.heap, of, f.x)
        ec  == multiply_scalar(g.heap, of, Div(ev2gmean(f.ev), g.val),
                               Zero, InfStr, Zero)
    IN  IF org.exc # "" THEN After(g.trace, ec)
        ELSE After(org.trace \o g.trace \o ec.trace,
                   replace_luminance(ec.heap, image, ec.ret, org.ret))

\* ExposureCompensation.__call__
CallExposureCompensation(heap, f, image) ==
    LET g == gmean(heap, image, f.x)
    IN  After(g.trace,
              multiply_scalar(g.heap, image, Div(ev2gmean(f.ev), g.val),
                              Zero, InfStr, Zero))

\* NormalizeRange.__call__: the name looked up in mode "luminance" does not
\* exist.
CallNormalizeRange(heap, f, image) ==
    IF f.mode = "luminance" THEN Failed(heap, "NameError", <<>>)
    ELSE multiply_scalar(heap, image, Div(One, Amax(heap[image].data)),
                         Zero, InfStr, Zero)

RECURSIVE Apply(_, _, _)
RECURSIVE ApplyAll(_, _, _)

\* ReplaceLuminance.__call__
CallReplaceLuminance(heap, f, image) ==
    LET org == get_luminance(heap, image)
    IN  IF org.exc # "" THEN org
        ELSE LET lum == Apply(org.heap, f.sub[1], org.ret)
             IN  IF lum.exc # "" THEN After(org.trace, lum)
                 ELSE After(org.trace \o lum.trace,
                            replace_luminance(lum.heap, image, lum.ret,
                                              org.ret))

\* The loop of Compose.__call__: for f in self.processings: x = f(x)
ApplyAll(heap, processings, x) ==
    IF processings = <<>> THEN Returned(heap, x, <<>>)
    ELSE LET r == Apply(heap, Head(processings), x)
         IN  IF r.exc # "" THEN r
             ELSE After(r.trace, ApplyAll(r.heap, Tail(processings), r.ret))

CallCompose_nocopy(heap, f, image) == ApplyAll(heap, f.sub, image)

\* Compose.__call__
CallCompose(heap, f, image) ==
    ApplyAll(Alloc(heap, heap[image]), f.sub, Len(heap) + 1)

\* f(x): the __call__ of the class of f, ahead of which the trace names the
\* class and x.
Apply(heap, f, x) ==
    After(<<Called(f.op, <<x>>)>>,
          CASE f.op = "ExposureCompensation" ->
                  CallExposureCompensation(heap, f, x)
            [] f.op = "NormalizeRange" -> CallNormalizeRange(heap, f, x)
            [] f.op = "ReinhardCurve" -> reinhard_curve(heap, x, x, f.x)
            [] f.op = "EilertsenCurve" ->
                  eilertsen_curve(heap, x, f.exponent, f.x)
            [] f.op = "ReplaceLuminance" -> CallReplaceLuminance(heap, f, x)
            [] f.op = "Compose" -> CallCompose(heap, f, x)
            [] f.op \in {"ReinhardTMO", "EilertsenTMO"} ->
                  Apply(heap, f.sub[1], x))

---------------------------------------------------------------------------
(* The tone operators at work: the caller holds an image or a luminance    *)
(* map (array 1) and, with an image, may hold a new luminance map (array   *)
(* 2); it calls the functions and the operator objects one after another,  *)
(* each on its own array or on the array the call before returned.         *)

\* The calls of one run.
MaxCalls == 1

Two == Rat(2, 1)

Four == Rat(4, 1)

Image(h, w, pixels) ==
    [shape |-> <<h, w, 3>>,
     data |-> [i \in 1..(3 * h * w) |->
                  pixels[((i - 1) \div 3) + 1][((i - 1) % 3) + 1]]]

Map(h, w, entries) == [shape |-> <<h, w>>, data |-> entries]

TmoPixels ==
    { <<One, Two, Four>>, <<Zero, Zero, Zero>>, <<One, One, One>>,
      <<NaN, One, One>>, <<Inf(1), One, One>>,
      <<Neg(One), Neg(Two), Neg(Four)>>, <<FMax, FMax, FMax>>,
      <<Zero, Zero, One>> }

\* The images: one pixel, or two pixels side by side.
TmoImages ==
    { Image(1, 1, <<p>>) : p \in TmoPixels }
    \cup { Image(1, 2, <<<<One, Two, Four>>, q>>) :
              q \in { <<Four, Two, One>>, <<Zero, Zero, Zero>> } }

\* The luminance maps handed to the operators in the place of an image.
TmoMaps ==
    { Map(1, 2, es) :
        es \in { <<One, One>>, <<One, Four>>, <<Zero, One>>,
                 <<Neg(One), Neg(Two)>>, <<Zero, Neg(One)>>,
                 <<NaN, One>>, <<Inf(-1), One>> } }

\* The new luminance of one pixel.
TmoLuminances == { Zero, Rat(1, 2), Two, NaN, Inf(1), Neg(One) }

NewMaps(image) ==
    IF image.shape[2] = 1
    THEN { Map(1, 1, <<l>>) : l \in TmoLuminances }
    ELSE { Map(1, 2, <<Rat(1, 2), Two>>), Map(1, 2, <<Zero, Inf(1)>>) }

TmoInit ==
    /\ \/ \E a \in TmoImages \cup TmoMaps : tmo_heap = <<a>>
       \/ \E a \in TmoImages : \E l \in NewMaps(a) : tmo_heap = <<a, l>>
    /\ tmo_hist = <<>>
    /\ pfm_image = NoResult
    /\ pfm_file = <<>>
    /\ pfm_src = "none"
    /\ pfm_result = NoResult
    /\ rad_input = NoResult
    /\ rad_file = <<>>
    /\ rad_reader = "none"
    /\ im = NoResult
    /\ filled = {}
    /\ rad_result = NoResult
    /\ header = NoResult
    /\ header_result = NoResult
    /\ body = NoResult
    /\ body_result = NoResult

\* No operator object: the call is of a plain function.
NoOperator ==
    [op |-> "", mode |-> "", ev |-> 0, exponent |-> 0, x |-> None,
     sub |-> <<>>]

\* The arrays a call may be made on: the caller's, and what the call before
\* returned.
Args ==
    {1} \cup { tmo_hist[i].r.ret :
                 i \in { j \in DOMAIN tmo_hist :
                           j = Len(tmo_hist) /\ tmo_hist[j].r.ret # 0 } }

\* Every float of the call is one of the floats modelled.
Representable(r) ==
    /\ \A i \in DOMAIN r.trace : r.trace[i].val # Irr
    /\ \A a \in DOMAIN r.heap :
          \A i \in DOMAIN r.heap[a].data : r.heap[a].data[i] # Irr

\* The call of fn (of the object f, with the floats par) on the arrays x
\* gave r.  An exception ends the run.
Step(fn, f, par, x, r) ==
    /\ Len(tmo_hist) < MaxCalls
    /\ tmo_hist # <<>> => tmo_hist[Len(tmo_hist)].r.exc = ""
    /\ Representable(r)
    /\ tmo_heap' = r.heap
    /\ tmo_hist' = Append(tmo_hist,
                          [fn |-> fn, f |-> f, par |-> par, x |-> x,
                           before |-> tmo_heap, r |-> r])
    /\ UNCHANGED <<pfm_vars, rad_vars>>

\* The float arguments multiply_scalar is called with: the factor, nan_sub,
\* inf_sub and minus_sub.
ScalarArgs ==
    { <<Two, Zero, InfStr, Zero>>, <<Neg(One), Zero, InfStr, Zero>>,
      <<Two, None, None, None>>, <<Two, Zero, IntOne, Zero>>,
      <<Two, Zero, One, Zero>> }

TmoMultiplyScalar ==
    \E x \in Args, par \in ScalarArgs :
        Step("multiply_scalar", NoOperator, par, <<x>>,
             multiply_scalar(tmo_heap, x, par[1], par[2], par[3], par[4]))

TmoPreprocessingMultiplyScalar ==
    \E x \in Args, factor \in {None, Two} :
        Step("preprocessing.multiply_scalar", NoOperator, <<factor>>, <<x>>,
             preprocessing_multiply_scalar(tmo_heap, x, factor, 0))

\* The eps gmean is called with.
GmeanEps == {None, Fin(1, 1, -2, 0)}

TmoGmean ==
    \E x \in Args, eps \in GmeanEps :
        Step("stats.gmean", NoOperator, <<eps>>, <<x>>,
             gmean(tmo_heap, x, eps))

TmoGmeanMath ==
    \E x \in Args, eps \in GmeanEps :
        Step("math.gmean", NoOperator, <<eps>>, <<x>>,
             gmean_math(tmo_heap, x, eps))

TmoGetLuminance ==
    \E x \in Args :
        Step("get_luminance", NoOperator, <<>>, <<x>>,
             get_luminance(tmo_heap, x))

\* replace_luminance(image, luminance) by a caller that holds a new
\* luminance map: org_luminance is None and is taken from the image.
TmoReplaceLuminance ==
    /\ Len(IF tmo_hist = <<>> THEN tmo_heap ELSE tmo_hist[1].before) = 2
    /\ LET org == get_luminance(tmo_heap, 1)
       IN  Step("replace_luminance", NoOperator, <<>>, <<1, 2>>,
                IF org.exc # "" THEN org
                ELSE After(org.trace,
                           replace_luminance(org.heap, 1, 2, org.ret)))

TmoKinoshitaCurve ==
    \E x \in Args, eps \in {Fin(1, 1, -2, 0)} :
        Step("kinoshita_curve", NoOperator, <<eps>>, <<x>>,
             kinoshita_curve(tmo_heap, x, eps))

\* The operator objects called.
TmoOperators ==
    { ExposureCompensation(0, DefaultEps), ExposureCompensation(1, DefaultEps),
      NormalizeRange("color"), NormalizeRange("luminance"),
      ReinhardCurve("global", InfStr), ReinhardCurve("global", Two),
      EilertsenCurve(1, Rat(1, 2)), EilertsenCurve(2, Rat(1, 2)),
      ReplaceLuminance(NormalizeRange("color")),
      ReplaceLuminance(ExposureCompensation(0, DefaultEps)),
      Compose(<<>>),
      Compose(<<NormalizeRange("color")>>),
      Compose(<<ExposureCompensation(1, DefaultEps),
                ReinhardCurve("global", InfStr)>>),
      ReinhardTMO(0, "global", InfStr), ReinhardTMO(1, "global", Two),
      EilertsenTMO(0, 1, Rat(1, 2)), EilertsenTMO(1, 2, Rat(1, 2)) }

TmoCall ==
    \E x \in Args, f \in TmoOperators :
        Step(f.op, f, <<>>, <<x>>, Apply(tmo_heap, f, x))

TmoNext ==
    \/ TmoMultiplyScalar
    \/ TmoPreprocessingMultiplyScalar
    \/ TmoGmean
    \/ TmoGmeanMath
    \/ TmoGetLuminance
    \/ TmoReplaceLuminance
    \/ TmoKinoshitaCurve
    \/ TmoCall

SpecTmo == TmoInit /\ [][TmoNext]_vars

---------------------------------------------------------------------------
(* The claims about the PFM codec, checked under SpecPfm.                  *)

\* A pattern denotes a finite float unless its exponent field is all ones.
IsFinite(x) == x.e # 255

PfmHeight == pfm_image.shape[1]

PfmWidth == pfm_image.shape[2]

\* C1: reading the file PFMFormat.write produced for an (H, W, 3) image of
\* finite floats returns an array of the same shape holding the same value
\* at every (row, column, channel) index.
C1_RoundTrip ==
    (/\ pfm_src = "write"
     /\ pfm_result # NoResult
     /\ \A idx \in ImageIndices(PfmHeight, PfmWidth) :
            IsFinite(pfm_image.at[idx]))
    => /\ pfm_result.kind = "image"
       /\ pfm_result.shape = <<PfmHeight, PfmWidth, 3>>
       /\ \A idx \in ImageIndices(PfmHeight, PfmWidth) :
              pfm_result.at[idx] = pfm_image.at[idx]

\* A file written for a 2 x 1 image of finite floats that differ from row to
\* row has been read back.
C1_Witness ==
    /\ pfm_src = "write"
    /\ pfm_result # NoResult
    /\ pfm_image.shape = <<2, 1, 3>>
    /\ \A idx \in ImageIndices(2, 1) : IsFinite(pfm_image.at[idx])
    /\ pfm_image.at[<<0, 0, 0>>] # pfm_image.at[<<1, 0, 0>>]

\* C2: the file written holds the line PF, the line "<W> <H>", the line
\* -1.0, then H*W*3 floats of four bytes, float number k being the entry at
\* row k div (3W), column (k div 3) mod W, channel k mod 3, and nothing else.
C2_WriteLayout ==
    pfm_src = "write" =>
        LET head == <<80, 70, 10>> \o Dec(PfmWidth) \o <<32>> \o Dec(PfmHeight)
                        \o <<10>> \o <<45, 49, 46, 48, 10>>
            count == PfmHeight * PfmWidth * 3
        IN  /\ Len(pfm_file) = Len(head) + 4 * count
            /\ SubSeq(pfm_file, 1, Len(head)) = head
            /\ \A k \in 0..(count - 1) :
                  SubSeq(pfm_file, Len(head) + 4 * k + 1, Len(head) + 4 * k + 4)
                      = Pack(pfm_image.at[<<k \div (3 * PfmWidth),
                                            (k \div 3) % PfmWidth, k % 3>>])

\* A 2 x 2 image whose entries differ across the diagonal has been written.
C2_Witness ==
    /\ pfm_src = "write"
    /\ pfm_image.shape = <<2, 2, 3>>
    /\ pfm_image.at[<<0, 1, 0>>] # pfm_image.at[<<1, 0, 0>>]

\* C3: PFMFormat.read raises, and returns no image, whenever the first line
\* of the file is not PF (the greyscale Pf among them).
C3_OnlyPFIsRead ==
    (/\ pfm_src \in {"write", "cut", "magic"}
     /\ pfm_result # NoResult
     /\ ReadLine(pfm_file, 0, Len(pfm_file)).line # <<80, 70, 10>>)
    => pfm_result.kind = "error"

---------------------------------------------------------------------------
(* The claims about the Radiance readers, checked under SpecRad.           *)

\* imread is past its header checks.
ImPastHeader ==
    im.pc \in {"resolution", "peek", "scanline", "run", "reshape", "flat",
               "convert", "done"}

\* imread is past its resolution line.
ImPastResolution ==
    im.pc \in {"peek", "scanline", "run", "reshape", "flat", "convert", "done"}

\* The resolution line of the file holds both tokens and positive integers.
ValidResolution ==
    /\ rad_input.res.form = "both"
    /\ rad_input.res.hval > 0
    /\ rad_input.res.wval > 0

FirstLineIsSignature ==
    /\ Len(rad_input.lines) >= 1
    /\ rad_input.lines[1] \in {"sig_radiance", "sig_rgbe"}

\* The FORMAT line that counts among the header lines of the file: the last
\* one ahead of the first blank line; "absent" when there is none.
DeclaredFormat ==
    LET ls     == rad_input.lines
        blanks == {i \in 1..Len(ls) : ls[i] = "blank"}
        end    == IF blanks = {} THEN Len(ls) ELSE SetMin(blanks) - 1
        fmts   == {i \in 1..end :
                     ls[i] \in {"format_rgbe", "format_xyze", "format_other"}}
    IN  IF fmts = {} THEN "absent"
        ELSE ls[CHOOSE i \in fmts : \A j \in fmts : j <= i]

\* C4: header parsing succeeds only if the first line of the file is
\* #?RADIANCE or #?RGBE; with any other first line it fails and no image is
\* produced.
C4_SignatureOnFirstLine ==
    (ImPastHeader \/ header_result = [kind |-> "ok"] \/ rad_result.kind = "image")
    => FirstLineIsSignature

\* C5: after the blank line the header passes validation only if FORMAT is
\* present with the value 32-bit_rle_rgbe or 32-bit_rle_xyze; otherwise
\* parsing fails and no body is decoded.
C5_FormatValidated ==
    (ImPastHeader \/ header_result = [kind |-> "ok"] \/ rad_result.kind = "image")
    => DeclaredFormat \in {"format_rgbe", "format_xyze"}

C7_BadResolutionRejected ==
    LET res == rad_input.res
    IN  ((rad_reader = "io" /\ body.record_start # -1)
         \/ (rad_reader = "imread" /\ ImPastResolution))
        => (res.form = "both" /\ res.hval > 0 /\ res.wval > 0)

\* C8: a read returns a complete image, every pixel of it decoded from bytes
\* of the input, or raises and returns nothing: no returned image holds a
\* pixel the decoder never wrote.
C8_CompleteImageOrError ==
    (ValidResolution /\ rad_result.kind = "image") =>
        \A k \in 0..(rad_result.shape[1] * rad_result.shape[2] * 4 - 1) :
            k \in filled

\* C9: on the RLE path, a scanline loop that ends after fewer than `height`
\* decoded scanlines makes decoding fail; no image is returned.
C9_ShortBodyIsCorrupt ==
    (/\ ValidResolution
     /\ im.filetype = HDR_RLE_RGBE_32
     /\ im.pc \in {"convert", "done"})
    => im.nowy >= im.height

\* C10: decoding terminates, and the scanline loop decodes at most `height`
\* scanlines: it stops at the end of the file or at the declared height,
\* whichever comes first.
C10_AtMostHeightScanlines ==
    (ValidResolution /\ ImPastResolution) =>
        /\ im.nowy <= im.height
        /\ im.pc = "run" => im.nowy < im.height

\* C11: every pixel of the image returned, its quad being (R, G, B, E), holds
\* R, G and B times 2^(E - 128) / 256 when E >= 1, and 0, 0, 0 when E = 0.
C11_RGBEConversion ==
    rad_result.kind = "image" =>
        \A idx \in ImageIndices(rad_result.shape[1], rad_result.shape[2]) :
            LET q   == (idx[1] * rad_result.shape[2] + idx[2]) * 4
                E   == im.tmpdata[q + 4]
                got == rad_result.at[idx]
            IN  IF E = 0 THEN got.mant = 0
                ELSE got.mant = im.tmpdata[q + idx[3] + 1] /\ got.exp2 = E - 128 - 8

---------------------------------------------------------------------------
(* The claims about the tone operators, checked under SpecTmo.             *)

\* The calls made so far of the operator objects of class op.
CallsOf(op) == { i \in DOMAIN tmo_hist : tmo_hist[i].f.op = op }

Range(s) == { s[i] : i \in DOMAIN s }

\* The array a call returned.
Result(h) == h.r.heap[h.r.ret]

\* C12: a call of Compose on x copies x, hands the copy to the first of its
\* operators and to each following one what the one before returned, in the
\* order of the list, and returns what the last one returned; with no
\* operator it returns the copy, whose contents are those of x; x itself is
\* handed to no operator.
C12_ComposeInOrder ==
    \A i \in CallsOf("Compose") :
        LET h   == tmo_hist[i]
            x   == h.x[1]
            c   == Len(h.before) + 1
            h0  == Append(h.before, h.before[x])
            ops == h.f.sub
            r1  == Apply(h0, ops[1], c)
            r2  == Apply(r1.heap, ops[2], r1.ret)
            end == IF Len(ops) = 1 \/ r1.exc # "" THEN r1 ELSE r2
        IN  /\ c \in DOMAIN h.r.heap
            /\ h.r.heap[c] = h.before[x]
            /\ h.r.heap[x] = h.before[x]
            /\ \A j \in 2..Len(h.r.trace) : x \notin Range(h.r.trace[j].args)
            /\ ops = <<>> => h.r.exc = "" /\ h.r.ret = c
            /\ ops # <<>> =>
                  /\ h.r.trace[2] = Called(ops[1].op, <<c>>)
                  /\ h.r.exc = end.exc
                  /\ h.r.exc = "" => Result(h) = end.heap[end.ret]

\* Compose was called with two operators and returned an array that differs
\* from the one it was called on.
C12_Witness ==
    \E i \in CallsOf("Compose") :
        /\ Len(tmo_hist[i].f.sub) = 2
        /\ tmo_hist[i].r.exc = ""
        /\ Result(tmo_hist[i]) # tmo_hist[i].before[tmo_hist[i].x[1]]

\* C13: after every call of a tone operator the arrays handed to it hold
\* what they held before the call.
C13_InputsUnchanged ==
    \A i \in DOMAIN tmo_hist :
        \A a \in Range(tmo_hist[i].x) :
            tmo_hist[i].r.heap[a] = tmo_hist[i].before[a]

\* The calls made so far of the plain function fn.
CallsOfFn(fn) == { i \in DOMAIN tmo_hist : tmo_hist[i].fn = fn }

\* C14: replace_luminance raises nothing, and every channel of every pixel
\* of what it returns is the channel of the image times the ratio of the
\* pixel: 0 where the original luminance is 0, and elsewhere the new
\* luminance, clipped to [0, float32 max], over the original luminance.
C14_RatioZeroAtZeroLuminance ==
    \A i \in CallsOfFn("replace_luminance") :
        LET h   == tmo_hist[i]
            img == h.before[h.x[1]].data
            new == h.before[h.x[2]].data
            org == h.r.heap[Len(h.before) + 1].data
        IN  /\ h.r.exc = ""
            /\ \A p \in DOMAIN new : \A c \in 1..3 :
                  Result(h).data[3 * (p - 1) + c] =
                      Mul(img[3 * (p - 1) + c],
                          IF NumEq(org[p], Zero) THEN Zero
                          ELSE Div(Clip(new[p], Zero, FMax), org[p]))

\* replace_luminance was called on an image with a pixel of luminance 0
\* whose new luminance is not 0, and with a pixel of another luminance.
C14_Witness ==
    \E i \in CallsOfFn("replace_luminance") :
        LET h   == tmo_hist[i]
            new == h.before[h.x[2]].data
            org == h.r.heap[Len(h.before) + 1].data
        IN  /\ \E p \in DOMAIN new : org[p] = Zero /\ new[p] # Zero
            /\ \E p \in DOMAIN new : org[p] # Zero

\* C15: when gmean is called with an eps that is not None, the array handed
\* to the logarithm holds no entry that is zero, negative or NaN, and the
\* float returned is the geometric mean of the argument with every such
\* entry replaced by eps.
C15_LogOfSubstituted ==
    \A i \in CallsOfFn("stats.gmean") \cup CallsOfFn("math.gmean") :
        LET h      == tmo_hist[i]
            eps    == h.par[1]
            a      == h.before[h.x[1]].data
            logged == h.r.heap[h.r.trace[2].args[1]].data
            sub    == [j \in DOMAIN a |->
                          IF Leq(a[j], Zero) \/ IsNaN(a[j]) THEN eps
                          ELSE a[j]]
        IN  eps # None =>
                /\ \A j \in DOMAIN logged :
                      ~Leq(logged[j], Zero) /\ ~IsNaN(logged[j])
                /\ h.r.val = ExpMeanLog(sub)

\* C16: multiply_scalar with the default substitutions returns, entry by
\* entry, 0 where the product of the entry and the factor is NaN, float32
\* max where it is Inf, 0 where it is <= 0, and the product elsewhere; every
\* entry returned is finite and >= 0.
C16_DefaultSubstitutions ==
    \A i \in CallsOfFn("multiply_scalar") :
        LET h == tmo_hist[i]
            a == h.before[h.x[1]].data
        IN  <<h.par[2], h.par[3], h.par[4]>> = <<Zero, InfStr, Zero>> =>
                /\ h.r.exc = ""
                /\ \A j \in DOMAIN a :
                      LET prod == Mul(a[j], h.par[1])
                          out  == Result(h).data[j]
                      IN  /\ out = IF IsNaN(prod) THEN Zero
                                   ELSE IF prod = Inf(1) THEN FMax
                                   ELSE IF Leq(prod, Zero) THEN Zero
                                   ELSE prod
                          /\ out.k = "fin" /\ Leq(Zero, out)

\* C17: NormalizeRange("color") applied to what NormalizeRange("color")
\* returned gives an array equal to the one it was applied to.
C17_NormalizeRangeIdempotent ==
    \A i \in CallsOf("NormalizeRange") :
        LET h     == tmo_hist[i]
            again == Apply(h.r.heap, h.f, h.r.ret)
        IN  h.f.mode = "color" /\ h.r.exc = "" /\ Representable(again) =>
                /\ again.exc = ""
                /\ again.heap[again.ret] = Result(h)

\* The place in the trace of the first call of fn, 0 if there is none.
FirstCall(trace, fn) ==
    IF \E j \in DOMAIN trace : trace[j].fn = fn
    THEN CHOOSE j \in DOMAIN trace :
            /\ trace[j].fn = fn
            /\ \A k \in 1..(j - 1) : trace[k].fn # fn
    ELSE 0

\* The curve of a preset operator.
CurveOf(f) ==
    IF f.op = "ReinhardTMO" THEN ReinhardCurve(f.mode, f.x)
    ELSE EilertsenCurve(f.exponent, f.x)

\* The image with the luminance curve(exposure compensation(L)), L being
\* its luminance: the outcome of the last of the four steps.
CurveOnLuminance(heap, f, image) ==
    LET org == get_luminance(heap, image)
        ec  == Apply(org.heap, ExposureCompensation(f.ev, DefaultEps), org.ret)
        cv  == Apply(ec.heap, CurveOf(f), ec.ret)
    IN  replace_luminance(cv.heap, image, cv.ret, org.ret)

\* The curve applied to every channel of the image with the luminance
\* exposure compensation(L).
CurveOnChannels(heap, f, image) ==
    LET org == get_luminance(heap, image)
        ec  == Apply(org.heap, ExposureCompensation(f.ev, DefaultEps), org.ret)
        rl  == replace_luminance(ec.heap, image, ec.ret, org.ret)
    IN  Apply(rl.heap, CurveOf(f), rl.ret)

\* The curve of the preset operator is called after the exposure
\* compensation.
CurveAfterCompensation(h) ==
    /\ FirstCall(h.r.trace, "ExposureCompensation") > 0
    /\ FirstCall(h.r.trace, CurveOf(h.f).op)
           > FirstCall(h.r.trace, "ExposureCompensation")

\* C18 as claimed: ReinhardTMO and EilertsenTMO each return the image with
\* the luminance curve(exposure compensation(L)), imposed by luminance
\* replacement, and call the curve after the exposure compensation.
C18_SamePipelineShape ==
    \A i \in CallsOf("ReinhardTMO") \cup CallsOf("EilertsenTMO") :
        LET h   == tmo_hist[i]
            out == CurveOnLuminance(h.before, h.f, h.x[1])
        IN  h.r.exc = "" /\ Representable(out) =>
                /\ out.exc = ""
                /\ Result(h) = out.heap[out.ret]
                /\ CurveAfterCompensation(h)

\* C18 as amended: ReinhardTMO returns the image with the luminance
\* curve(exposure compensation(L)); EilertsenTMO imposes the luminance
\* exposure compensation(L) on the image and returns its curve of every
\* channel of that image; both call the curve after the exposure
\* compensation.
C18_PresetPipelines ==
    \A i \in CallsOf("ReinhardTMO") \cup CallsOf("EilertsenTMO") :
        LET h   == tmo_hist[i]
            out == IF h.f.op = "ReinhardTMO"
                   THEN CurveOnLuminance(h.before, h.f, h.x[1])
                   ELSE CurveOnChannels(h.before, h.f, h.x[1])
        IN  h.r.exc = "" =>
                /\ out.exc = ""
                /\ Result(h) = out.heap[out.ret]
                /\ CurveAfterCompensation(h)

\* EilertsenTMO returned the image it made of an image whose pixel is not
\* grey.
C18_Witness ==
    \E i \in CallsOf("EilertsenTMO") :
        LET h == tmo_hist[i]
        IN  /\ h.r.exc = ""
            /\ h.before[h.x[1]].data[1] # h.before[h.x[1]].data[3]
            /\ Result(h).data[3] # Zero

\* The calls made so far of ExposureCompensation on an (H, W, 3) image that
\* returned an array.
CompensatedImages ==
    { i \in CallsOf("ExposureCompensation") :
        /\ Len(tmo_hist[i].before[tmo_hist[i].x[1]].shape) = 3
        /\ tmo_hist[i].r.exc = "" }

\* C19 as claimed: ExposureCompensation called on an (H, W, 3) image returns
\* what replace_luminance makes of the image and of the exposure
\* compensation of its luminance map.
C19_ViaLuminance ==
    \A i \in CompensatedImages :
        LET h   == tmo_hist[i]
            org == get_luminance(h.before, h.x[1])
            ec  == Apply(org.heap, h.f, org.ret)
            out == replace_luminance(ec.heap, h.x[1], ec.ret, org.ret)
        IN  Representable(out) =>
                out.exc = "" /\ Result(h) = out.heap[out.ret]

\* C19 as amended: ExposureCompensation called on an (H, W, 3) image takes
\* the geometric mean g of the channel values of the image, those <= 0 or
\* NaN replaced by eps, and returns the image times 0.18 * 2^ev / g; an
\* entry whose product is not a finite float above 0 is 0 or float32 max.
C19_ScalesChannels ==
    \A i \in CompensatedImages :
        LET h      == tmo_hist[i]
            a      == h.before[h.x[1]].data
            g      == h.r.trace[FirstCall(h.r.trace, "gmean")]
            sub    == [j \in DOMAIN a |->
                          IF Leq(a[j], Zero) \/ IsNaN(a[j]) THEN h.f.x
                          ELSE a[j]]
            factor == Div(Mul(Rat(18, 100), Fin(1, 1, h.f.ev, 0)), g.val)
        IN  /\ g.args = <<h.x[1]>>
            /\ g.val = ExpMeanLog(sub)
            /\ \A j \in DOMAIN a :
                  LET prod == Mul(a[j], factor)
                  IN  IF prod.k = "fin" /\ Lt(Zero, prod)
                      THEN Result(h).data[j] = prod
                      ELSE Result(h).data[j] \in {Zero, FMax}

\* ExposureCompensation was called on an image whose pixel is not grey and
\* returned an image that is not black.
C19_Witness ==
    \E i \in CompensatedImages :
        LET h == tmo_hist[i]
        IN  /\ h.before[h.x[1]].data[1] # h.before[h.x[1]].data[3]
            /\ Result(h).data[3].k = "fin"
            /\ Lt(Zero, Result(h).data[1])

---------------------------------------------------------------------------
(* The claim about the header variables, checked under SpecRad.            *)

\* The key and the value of a header line of the form KEY=VALUE, <<>> for a
\* line of another form.
KeyValueOf(kind) ==
    CASE kind = "format_rgbe" -> <<FormatKey, RgbeFormat>>
      [] kind = "format_xyze" -> <<FormatKey, XyzeFormat>>
      [] kind = "format_other" ->
            <<FormatKey, Bytes(<<"3", "2", "-", "b", "i", "t">>)>>
      [] kind = "exposure" ->
            <<Bytes(<<"E", "X", "P", "O", "S", "U", "R", "E">>),
              Bytes(<<"2", ".", "5">>)>>
      [] OTHER -> <<>>

\* The place of the first empty line after the first line, past the last
\* line if there is none.
EmptyLineAt(lines) ==
    SetMin({i \in 2..(Len(lines) + 1) : i > Len(lines) \/ lines[i] = "blank"})

\* The lines without those between the first line and the empty line that
\* are not of the form KEY=VALUE.
WithoutOtherLines(lines) ==
    LET b == EmptyLineAt(lines)
        matches(kind) == KeyValueOf(kind) # <<>>
    IN  <<lines[1]>> \o SelectSeq(SubSeq(lines, 2, b - 1), matches)
            \o SubSeq(lines, b, Len(lines))

\* read_header was called on a file whose header ends with an empty line.
HeaderRead ==
    /\ rad_reader = "io"
    /\ header_result # NoResult
    /\ rad_input.lines # <<>>
    /\ EmptyLineAt(rad_input.lines) <= Len(rad_input.lines)

\* The lines that are not of the form KEY=VALUE are ignored: the file
\* without them gives the same variables and the same outcome.
OtherLinesIgnored ==
    LET r == read_header(HeaderInit,
                 RenderFile([rad_input EXCEPT
                                !.lines = WithoutOtherLines(@)]))
    IN  /\ r.result.kind = header_result.kind
        /\ r.hdr.variables = header.variables

\* C20 as claimed: when read_header succeeds the variables hold VALUE under
\* KEY for every line KEY=VALUE between the signature and the first empty
\* line, and the lines of another form change neither the variables nor the
\* outcome.
C20_EveryKeyValueLineHeld ==
    HeaderRead =>
        /\ header_result.kind = "ok" =>
              \A i \in 2..(EmptyLineAt(rad_input.lines) - 1) :
                  LET kv == KeyValueOf(rad_input.lines[i])
                  IN  kv # <<>> =>
                          /\ kv[1] \in DOMAIN header.variables
                          /\ header.variables[kv[1]] = kv[2]
        /\ OtherLinesIgnored

\* C20 as amended: when read_header succeeds the variables hold VALUE under
\* KEY for every line KEY=VALUE between the signature and the first empty
\* line that no later such line with the same KEY follows, and the lines of
\* another form change neither the variables nor the outcome.
C20_LastKeyValueLineHeld ==
    HeaderRead =>
        /\ header_result.kind = "ok" =>
              \A i \in 2..(EmptyLineAt(rad_input.lines) - 1) :
                  LET kv == KeyValueOf(rad_input.lines[i])
                      later == { j \in (i + 1)..(EmptyLineAt(rad_input.lines) - 1) :
                                   /\ KeyValueOf(rad_input.lines[j]) # <<>>
                                   /\ KeyValueOf(rad_input.lines[j])[1] = kv[1] }
                  IN  kv # <<>> /\ later = {} =>
                          /\ kv[1] \in DOMAIN header.variables
                          /\ header.variables[kv[1]] = kv[2]
        /\ OtherLinesIgnored

\* read_header succeeded on a header with two lines KEY=VALUE of one KEY
\* and different VALUEs.
C20_Witness ==
    /\ HeaderRead
    /\ header_result.kind = "ok"
    /\ \E i, j \in 2..(EmptyLineAt(rad_input.lines) - 1) :
          /\ i < j
          /\ KeyValueOf(rad_input.lines[i]) # <<>>
          /\ KeyValueOf(rad_input.lines[j]) # <<>>
          /\ KeyValueOf(rad_input.lines[i])[1] = KeyValueOf(rad_input.lines[j])[1]
          /\ KeyValueOf(rad_input.lines[i])[2] # KeyValueOf(rad_input.lines[j])[2]

---------------------------------------------------------------------------
(* The claims about the resolution line and the body of a Radiance file,   *)
(* checked under SpecRad.                                                  *)

\* read_body has parsed the resolution line of the file.
ResolutionRead == rad_reader = "io" /\ body.record_start # -1

\* C21: for every resolution line with a Y token and an X token, the flags
\* parsed are: is_flipud iff the sign of the Y token is +, is_fliplr iff
\* the sign of the X token is -, is_rotated iff the Y token stands after the
\* X token.
C21_OrientationFlags ==
    (ResolutionRead /\ rad_input.res.form = "both") =>
        /\ body.is_flipud <=> (rad_input.res.ysign = 43)
        /\ body.is_fliplr <=> (rad_input.res.xsign = 45)
        /\ body.is_rotated <=> (rad_input.res.order = "XY")

\* The stream position of the first byte after the resolution line, in a
\* file whose header is a signature, a FORMAT line and the empty line.
BodyStart ==
    Len(Concat([i \in 1..Len(rad_input.lines) |-> LineText(rad_input.lines[i])]))
        + Len(ResText(rad_input.res))

\* The body of the file starts with the bytes 0x02 0x02.
StartsWithMarker == ReadBytes(rad_file, BodyStart, 2) = <<2, 2>>

\* C22: the two bytes at the start of the body alone choose the path, the
\* RLE path iff both are 0x02 and the flat path otherwise, whatever FORMAT
\* says, with no failure at the choice; and the path chosen starts reading
\* at the position the look at the two bytes started from.
C22_PathByFirstBytes ==
    (/\ rad_reader = "imread"
     /\ rad_input.family = "body"
     /\ Len(ReadBytes(rad_file, BodyStart, 2)) = 2) =>
        /\ rad_result # Raised("NameError")
        /\ im.pc = "flat" => (~StartsWithMarker /\ im.pos = BodyStart)
        /\ (im.pc = "scanline" /\ im.nowy = 0) =>
               (StartsWithMarker /\ im.pos = BodyStart)

\* C23: a run of the RLE decoder whose control byte is info gives the next
\* info bytes of the stream as they are when info <= 128, and info - 128
\* times the one byte that follows when info > 128; the bytes go to the next
\* pixel slots of the plane at hand, one after another, so that a plane
\* holds its runs' bytes in the order of the stream; no other byte of the
\* buffer changes.
C23_RunExpansion ==
    [][(rad_reader = "imread" /\ im.pc = "run" /\ im'.pc = "run") =>
        LET info == rad_file[im.pos + 1]
            n    == IF info <= 128 THEN info ELSE info - 128
            c    == im'.nowv
            x0   == IF im.nowx >= im.width THEN 0 ELSE im.nowx
            slot(i) == (im.nowy * im.width + x0 + i) * 4 + c
        IN  /\ c = (IF im.nowx >= im.width THEN im.nowv + 1 ELSE im.nowv)
            /\ im'.nowx = x0 + n
            /\ im'.pos = im.pos + (IF info <= 128 THEN 1 + info ELSE 2)
            /\ \A i \in 0..(n - 1) :
                  im'.tmpdata[slot(i) + 1] =
                      rad_file[im.pos + (IF info <= 128 THEN 2 + i ELSE 2)]
            /\ \A j \in 1..Len(im.tmpdata) :
                  (j - 1) \notin {slot(i) : i \in 0..(n - 1)} =>
                      im'.tmpdata[j] = im.tmpdata[j]
            /\ Len(im'.tmpdata) = Len(im.tmpdata)]_vars

\* A plane of two pixels holds a repeat run and, after it, a literal run.
C23_Witness ==
    /\ rad_reader = "imread"
    /\ im.pc = "run"
    /\ rad_input.blocks # <<>>
    /\ rad_input.blocks[1] = "mix"
    /\ im.width = 2
    /\ im.nowy = 0
    /\ im.nowv = 1
    /\ im.nowx = 2
    /\ im.tmpdata[2] = PlaneByte(1, 0)
    /\ im.tmpdata[6] = PlaneByte(1, 1)

\* The blocks that are scanlines of the declared width whose planes hold
\* runs of exactly that many pixels.
WellFormedKinds == {"rep", "lit", "mix", "zero", "dark"}

\* The byte that pixel x of plane c of a well-formed block carries.
ExpectedByte(kind, c, x) ==
    CASE kind = "rep" -> PlaneByte(c, 0)
      [] kind = "dark" -> IF c = 3 THEN 0 ELSE PlaneByte(c, 0)
      [] OTHER -> PlaneByte(c, x)

\* The first n blocks of the file are well-formed scanlines.
WellFormedUpTo(n) ==
    /\ n <= Len(rad_input.blocks)
    /\ \A i \in 1..n : rad_input.blocks[i] \in WellFormedKinds

\* C24: in a well-formed RLE scanline y the planes are decoded in the order
\* R, G, B, E, each until exactly `width` pixels are filled: byte x of plane
\* c is at buffer index (y*width + x)*4 + c, and while plane c is being
\* decoded the planes before it hold `width` pixels and no byte of a plane
\* after it, nor a later byte of plane c, has been written.
C24_PlanesInOrder ==
    LET W == rad_input.res.wval
        H == rad_input.res.hval
        slot(y, x, c) == (y * W + x) * 4 + c
        holds(y, x, c) ==
            /\ slot(y, x, c) \in filled
            /\ im.tmpdata[slot(y, x, c) + 1]
                   = ExpectedByte(rad_input.blocks[y + 1], c, x)
    IN  (/\ rad_reader = "imread"
         /\ rad_input.family = "body"
         /\ im.filetype = HDR_RLE_RGBE_32
         /\ im.nowy <= H) =>
            /\ (im.pc = "scanline" /\ WellFormedUpTo(im.nowy)) =>
                  \A y \in 0..(im.nowy - 1), x \in 0..(W - 1), c \in 0..3 :
                      holds(y, x, c)
            /\ (im.pc = "run" /\ im.nowy < H /\ WellFormedUpTo(im.nowy + 1)) =>
                  /\ im.width = W
                  /\ im.nowv \in 0..3
                  /\ im.nowx <= W
                  /\ \A y \in 0..(im.nowy - 1), x \in 0..(W - 1), c \in 0..3 :
                        holds(y, x, c)
                  /\ \A x \in 0..(W - 1), c \in 0..3 :
                        IF c < im.nowv \/ (c = im.nowv /\ x < im.nowx)
                        THEN holds(im.nowy, x, c)
                        ELSE slot(im.nowy, x, c) \notin filled

\* Two well-formed scanlines of two pixels, the second of literal runs, have
\* been decoded.
C24_Witness ==
    /\ rad_reader = "imread"
    /\ im.pc = "scanline"
    /\ im.nowy = 2
    /\ rad_input.res.wval = 2
    /\ rad_input.blocks = <<"mix", "lit">>
    /\ im.tmpdata[((1 * 2 + 1) * 4 + 2) + 1] = PlaneByte(2, 1)

\* imread has taken the flat path and read the body.
FlatRead ==
    /\ rad_reader = "imread"
    /\ rad_input.family = "body"
    /\ im.filetype # HDR_RLE_RGBE_32
    /\ im.pc \in {"convert", "done"}

\* C25: on the flat path the decoder reads exactly width*height*4 bytes from
\* the start of the body, and byte k is component k mod 4 of the quad at row
\* k div (4*width), column (k div 4) mod width; with fewer bytes left than
\* that, decoding fails.
C25_FlatLayout ==
    LET W == rad_input.res.wval
        H == rad_input.res.hval
        byte(k) == rad_file[BodyStart + k + 1]
    IN  FlatRead =>
            /\ Len(rad_file) - BodyStart >= W * H * 4
            /\ im.pos = BodyStart + W * H * 4
            /\ Len(im.tmpdata) = W * H * 4
            /\ \A k \in 0..(W * H * 4 - 1) : im.tmpdata[k + 1] = byte(k)
            /\ im.pc = "done" =>
                  /\ rad_result.kind = "image"
                  /\ rad_result.shape = <<H, W, 3>>
                  /\ \A k \in 0..(W * H * 4 - 1) :
                        LET row == k \div (4 * W)
                            col == (k \div 4) % W
                        IN  IF k % 4 < 3
                            THEN rad_result.at[<<row, col, k % 4>>].mant = byte(k)
                            ELSE \A c \in 0..2 :
                                    rad_result.at[<<row, col, c>>].exp2
                                        = byte(k) - 128 - 8

\* A flat body of two rows of two quads has become an image.
C25_Witness ==
    /\ FlatRead
    /\ im.pc = "done"
    /\ rad_input.res.hval = 2
    /\ rad_input.res.wval = 2
    /\ rad_result.at[<<0, 1, 0>>].mant # rad_result.at[<<1, 0, 0>>].mant

\* The file holds one whole scanline for each row of the image, each of them
\* well-formed but for the width some of them carry.
OnlyWidthMismatch ==
    /\ rad_input.family = "body"
    /\ rad_input.cut = 0
    /\ Len(rad_input.blocks) = rad_input.res.hval
    /\ \A i \in 1..Len(rad_input.blocks) :
          rad_input.blocks[i] \in WellFormedKinds \cup {"narrow", "wide"}
    /\ \E i \in 1..Len(rad_input.blocks) :
          rad_input.blocks[i] \in {"narrow", "wide"}

\* C26: a scanline whose 2-byte width is smaller or larger than the width
\* of the resolution line makes the decoder raise no error.
C26_WidthMismatchTolerated ==
    (rad_reader = "imread" /\ im.filetype = HDR_RLE_RGBE_32 /\ OnlyWidthMismatch)
        => rad_result.kind # "error"

\* The stream offset of the first byte after the empty line that ends the
\* header of the file, the first line being the signature; -1 when no empty
\* line follows the first line.
HeaderEndOffset ==
    LET ls     == rad_input.lines
        blanks == {i \in 2..Len(ls) : ls[i] = "blank"}
    IN  IF blanks = {} THEN -1
        ELSE Len(Concat([i \in 1..SetMin(blanks) |-> LineText(ls[i])]))

\* C27: when read_header succeeds, header_end is the offset of the first byte
\* after the empty line that ends the header, and read_body reads the
\* resolution line from that offset on; when read_header fails, no
\* header_end is recorded and read_body decodes nothing.
C27_HeaderEndPosition ==
    rad_reader = "io" =>
        /\ header_result = [kind |-> "ok"] =>
              /\ HeaderEndOffset # -1
              /\ header.header_end = HeaderEndOffset
        /\ body.record_start # -1 =>
              /\ header_result = [kind |-> "ok"]
              /\ ReadLine(rad_file, HeaderEndOffset, Len(rad_file)).line
                     = ResText(rad_input.res)
              /\ body.record_start
                     = HeaderEndOffset + Len(ResText(rad_input.res))
              /\ body.height = rad_input.res.hval
              /\ body.width = rad_input.res.wval
        /\ header_result.kind = "error" =>
              /\ header.header_end = -1
              /\ body = BodyInit
              /\ body_result \in {NoResult, Raised("AttributeError")}

\* read_body has read the resolution line after a header of four lines.
C27_Witness ==
    /\ rad_reader = "io"
    /\ header_result = [kind |-> "ok"]
    /\ Len(rad_input.lines) >= 4
    /\ header.header_end = HeaderEndOffset
    /\ body.record_start = header.header_end + 10

\* C28: every byte the RLE decoder writes for scanline y and plane c goes to
\* a buffer index (y*W + x)*4 + c with 0 <= x < W and 0 <= y < H, W and H
\* being the width and the height of the resolution line: no run writes
\* past the end of the plane of its scanline, into another scanline or
\* outside the buffer.
C28_WritesWithinScanline ==
    [][(/\ rad_reader = "imread"
        /\ rad_input.family = "body"
        /\ im.pc = "run"
        /\ im'.pc = "run") =>
        LET W    == rad_input.res.wval
            H    == rad_input.res.hval
            y    == im.nowy
            c    == im'.nowv
            x0   == IF im.nowx >= im.width THEN 0 ELSE im.nowx
            n    == im'.nowx - x0
            written == {(y * im.width + x0 + i) * 4 + c : i \in 0..(n - 1)}
        IN  \A s \in written :
                /\ y < H
                /\ \E x \in 0..(W - 1) : s = (y * W + x) * 4 + c
                /\ s < W * H * 4]_vars

\* What freshly constructed objects hold after reading the file at hand.
FreshHeader == read_header(HeaderInit, rad_file)

FreshBody == read_body(BodyInit, rad_file, FreshHeader.hdr)

\* C29: a header and a body object that have parsed a file A hold, after
\* parsing a file B, the variable map, the width, the height and the
\* orientation flags that freshly constructed objects hold after parsing B:
\* nothing of A survives.
C29_ParseIndependent ==
    rad_reader = "io_again" =>
        /\ header_result # NoResult =>
              /\ header_result = FreshHeader.result
              /\ header.variables = FreshHeader.hdr.variables
        /\ body_result # NoResult =>
              /\ body.width = FreshBody.bdy.width
              /\ body.height = FreshBody.bdy.height
              /\ body.is_fliplr = FreshBody.bdy.is_fliplr
              /\ body.is_flipud = FreshBody.bdy.is_flipud
              /\ body.is_rotated = FreshBody.bdy.is_rotated

---------------------------------------------------------------------------
(* The claim about hdrpy.io.write, checked under SpecPfm.                  *)

\* C30: hdrpy.io.write(path, image, nan_sub, inf_sub) leaves the array of
\* the caller as it was, for every nan_sub and inf_sub (None or a number)
\* and every image, those with NaN or Inf entries among them.
C30_WriteLeavesImage ==
    [][(pfm_src = "none" /\ pfm_src' \in WriteExts) => pfm_image' = pfm_image]_vars

=============================================================================
